---- MODULE Spec2Model ----
(***************************************************************************)
(* Verification model of the resilient data-acquisition layer of the       *)
(* Search Console MCP server: the backoff retrier (utils/retry.ts), the    *)
(* paginator (utils/pagination.ts) and the permission fallback of          *)
(* SearchConsoleService (service.ts).                                      *)
(*                                                                         *)
(* Each component has its own specification over the shared variables:     *)
(*   SpecRetry  one call of withRetry                                      *)
(*   SpecPage   one call of paginateSearchAnalytics, every page fetch      *)
(*              going through SearchConsoleService.searchAnalytics         *)
(***************************************************************************)
EXTENDS Integers, Sequences, FiniteSets, TLC

VARIABLES
    \* ---- withRetry ----
    opts,        \* the options object given to withRetry
    maxRetries,  \* retry.ts:9
    baseDelay,   \* retry.ts:10
    attempt,     \* loop counter of retry.ts:12
    rpc,         \* position of withRetry: "loop", "sleep", "done"
    calls,       \* the invocations of fn so far, with their outcomes
    delays,      \* the sleeps started so far
    result,      \* how withRetry settled
    \* ---- paginateSearchAnalytics / SearchConsoleService.searchAnalytics ----
    pageOpts,    \* the options object given to paginateSearchAnalytics
    siteUrl,     \* the site identifier given by the caller
    body,        \* the request body given by the caller
    maxRows,     \* pagination.ts:15
    pageSize,    \* pagination.ts:16
    allRows,     \* pagination.ts:17, kept as the list of appended pages
    startRow,    \* pagination.ts:18
    limit,       \* pagination.ts:21, of the page being fetched
    ppc,         \* position of the paginator: "loop", "primary", "fallback", "done"
    pending,     \* the error of the failed primary query while the fallback runs
    fetches,     \* the calls of service.searchAnalytics so far
    requests,    \* the remote searchanalytics.query requests so far
    pageResult,  \* how paginateSearchAnalytics settled
    \* ---- rateLimited ----
    fns,         \* the operations given to rateLimited, by name
    delayMs,     \* the wait between two operations
    rateI,       \* loop counter i of retry.ts:37
    results,     \* retry.ts:36
    ratePc,      \* position of rateLimited: "loop", "call", "running", "done"
    rateLog,     \* waits, starts and ends of operations, in order
    rateResult,  \* how rateLimited settled
    \* ---- page_health_dashboard ----
    apiKey,      \* whether GOOGLE_CLOUD_API_KEY is set (index.ts:217)
    settled,     \* per section: the state of its sub-query's promise
    settleOrder, \* the sections in the order their sub-queries settled
    report,      \* the composite report, one entry per section
    aggPc,       \* position of the dashboard handler: "start", "waiting", "done"
    aggResult,   \* how the dashboard handler settled
    \* ---- CallTool request handler ----
    toolName,    \* request.params.name (index.ts:507)
    toolArgs,    \* request.params.arguments (index.ts:507)
    toolPc,      \* position of the handler: "start", "remote", "done"
    serviceCalls, \* the service methods invoked for the request
    thrown,      \* the errors caught by the handler's catch block
    toolResult,  \* the result the handler resolved with
    \* ---- SearchConsoleService methods ----
    svcMethod,   \* the service method called
    svcSite,     \* the site identifier it is called with
    svcPc,       \* position: "start", "operation", "fallback", "done"
    svcRequests, \* the remote API requests of the call, in order
    svcErrors,   \* the rejections of those requests, in order
    svcResult,   \* how the method settled
    \* ---- loadCredentials ----
    credEnv,     \* per environment variable: what it is set to
    credPc,      \* position of loadCredentials: "p1", "p2", "p3", "none", "done"
    credTemp,    \* whether the temporary credentials file was written
    credResult,  \* how loadCredentials settled
    \* ---- OAuth2 tokens ----
    tokEnv,      \* what GOOGLE_OAUTH2_TOKENS is set to
    tokFiles,    \* the candidate token files, in search order
    tokens,      \* the in-memory token set (index.ts:236)
    tokensPath,  \* index.ts:236: 0 for null, else the index of the file loaded
    tokPc,       \* "load", "ready", "failed"
    tokLog,      \* the refresh events handled so far
    \* ---- computed analytics over two periods ----
    earlier,     \* the dataset of the earlier period: key -> clicks
    later,       \* the dataset of the later (recent) period
    calcOp,      \* the transform applied: "none", "compare", "decay", "diff"
    comparison,  \* the result of the period comparison
    decay,       \* the result of the decay detection
    keywordDiff, \* the result of the keyword diff
    \* ---- cannibalization detection ----
    cannRows,    \* per query and page: the positions of its rows
    cannPc,      \* "ready", "done"
    cannGroups,  \* the groups put out, by query
    \* ---- batch inspection ----
    batchSize,   \* the number of URLs given to batch_inspect
    batchPc,     \* "start", "inspecting", "done"
    inspected,   \* the number of inspection calls issued
    batchResult, \* "none", "rejected" or "outcomes"
    \* ---- formatAuthError ----
    fmtError,    \* the error given to formatAuthError
    fmtAuth,     \* the AuthContext: mode and identity
    fmtSite,     \* the optional siteUrl argument ("" when not given)
    fmtPc,       \* "call", "done"
    fmtResult,   \* the message returned, as the object given to JSON.stringify
    \* ---- normalizeUrl applied to its own result ----
    normInput,   \* the identifier given to normalizeUrl
    normOnce,    \* normalizeUrl(normInput)
    normTwice,   \* normalizeUrl(normOnce)
    normPc       \* the number of applications so far

retryVars == <<opts, maxRetries, baseDelay, attempt, rpc, calls, delays, result>>
pageVars  == <<pageOpts, siteUrl, body, maxRows, pageSize, allRows, startRow,
               limit, ppc, pending, fetches, requests, pageResult>>
rateVars  == <<fns, delayMs, rateI, results, ratePc, rateLog, rateResult>>
aggVars   == <<apiKey, settled, settleOrder, report, aggPc, aggResult>>
toolVars  == <<toolName, toolArgs, toolPc, serviceCalls, thrown, toolResult>>
svcVars   == <<svcMethod, svcSite, svcPc, svcRequests, svcErrors, svcResult>>
credVars  == <<credEnv, credPc, credTemp, credResult>>
tokVars   == <<tokEnv, tokFiles, tokens, tokensPath, tokPc, tokLog>>
calcVars  == <<earlier, later, calcOp, comparison, decay, keywordDiff>>
cannVars  == <<cannRows, cannPc, cannGroups>>
batchVars == <<batchSize, batchPc, inspected, batchResult>>
fmtVars == <<fmtError, fmtAuth, fmtSite, fmtPc, fmtResult>>
normVars == <<normInput, normOnce, normTwice, normPc>>
vars == <<retryVars, pageVars, rateVars, aggVars, toolVars, svcVars,
          credVars, tokVars, calcVars, cannVars, batchVars, fmtVars, normVars>>
notRetryVars == <<pageVars, rateVars, aggVars, toolVars, svcVars, credVars, tokVars, calcVars, cannVars, batchVars, fmtVars, normVars>>
notPageVars  == <<retryVars, rateVars, aggVars, toolVars, svcVars, credVars, tokVars, calcVars, cannVars, batchVars, fmtVars, normVars>>
notRateVars  == <<retryVars, pageVars, aggVars, toolVars, svcVars, credVars, tokVars, calcVars, cannVars, batchVars, fmtVars, normVars>>
notAggVars   == <<retryVars, pageVars, rateVars, toolVars, svcVars, credVars, tokVars, calcVars, cannVars, batchVars, fmtVars, normVars>>
notToolVars  == <<retryVars, pageVars, rateVars, aggVars, svcVars, credVars, tokVars, calcVars, cannVars, batchVars, fmtVars, normVars>>
notSvcVars   == <<retryVars, pageVars, rateVars, aggVars, toolVars, credVars, tokVars, calcVars, cannVars, batchVars, fmtVars, normVars>>
notCredVars  == <<retryVars, pageVars, rateVars, aggVars, toolVars, svcVars, tokVars, calcVars, cannVars, batchVars, fmtVars, normVars>>
notTokVars   == <<retryVars, pageVars, rateVars, aggVars, toolVars, svcVars, credVars, calcVars, cannVars, batchVars, fmtVars, normVars>>
notCalcVars  == <<retryVars, pageVars, rateVars, aggVars, toolVars, svcVars, credVars, tokVars, cannVars, batchVars, fmtVars, normVars>>
notCannVars  == <<retryVars, pageVars, rateVars, aggVars, toolVars, svcVars, credVars, tokVars, calcVars, batchVars, fmtVars, normVars>>
notBatchVars == <<retryVars, pageVars, rateVars, aggVars, toolVars, svcVars, credVars, tokVars, calcVars, cannVars, fmtVars, normVars>>
notFmtVars == <<retryVars, pageVars, rateVars, aggVars, toolVars, svcVars, credVars, tokVars, calcVars, cannVars, batchVars, normVars>>
notNormVars == <<retryVars, pageVars, rateVars, aggVars, toolVars, svcVars, credVars, tokVars, calcVars, cannVars, batchVars, fmtVars>>

(***************************************************************************)
(* JavaScript values.  A value that may be a number, a string or undefined *)
(* carries its typeof tag, as the code probes it with typeof.              *)
(***************************************************************************)
Num(n) == [t |-> "number", n |-> n]
Str    == [t |-> "string", n |-> 0]
Undef  == [t |-> "undefined", n |-> 0]

\* a ?? d for a value that is a number or undefined
Nullish(v, d) == IF v.t = "undefined" THEN d ELSE v.n

Min(a, b) == IF a <= b THEN a ELSE b

RECURSIVE Pow2(_)
Pow2(n) == IF n <= 0 THEN 1 ELSE 2 * Pow2(n - 1)

(***************************************************************************)
(* Error values thrown by a remote call.  obj: typeof err === 'object' and *)
(* err !== null; isError: err instanceof Error; respStatus is              *)
(* err.response.status (undefined also when there is no response object).  *)
(***************************************************************************)
Err(obj, isError, code, status, respStatus, message) ==
    [obj |-> obj, isError |-> isError, code |-> code, status |-> status,
     respStatus |-> respStatus, message |-> message]

E404            == Err(TRUE, TRUE, Undef, Num(404), Undef, "Not Found")
E429            == Err(TRUE, TRUE, Num(429), Undef, Undef, "Quota exceeded")
E500            == Err(TRUE, TRUE, Undef, Undef, Num(500), "Internal error")
E503            == Err(TRUE, TRUE, Undef, Num(503), Undef, "Service Unavailable")
EPlain          == Err(TRUE, TRUE, Undef, Undef, Undef, "socket hang up")
ECode404Resp503 == Err(TRUE, TRUE, Num(404), Undef, Num(503), "Not Found")
EStrCodeResp503 == Err(TRUE, TRUE, Str, Undef, Num(503), "ECONNRESET")
EStatus404Resp503 == Err(TRUE, TRUE, Undef, Num(404), Num(503), "Not Found")
EPerm403        == Err(TRUE, TRUE, Num(403), Undef, Undef,
                       "User does not have sufficient Permission for site")
EThrownString   == Err(FALSE, FALSE, Undef, Undef, Undef, "permission")

Errors == {E404, E429, E500, E503, EPlain, ECode404Resp503, EStrCodeResp503,
           EStatus404Resp503, EPerm403, EThrownString}

\* the error created by the final throw of withRetry (retry.ts:28)
RetryExhaustedError == Err(TRUE, TRUE, Undef, Undef, Undef, "Retry exhausted")

Values == {"v1", "v2"}

(***************************************************************************)
(* Bounds of the model.                                                    *)
(***************************************************************************)
\* largest explicit opts.maxRetries tried (the default 3 is always tried)
MaxRetriesOpt == 2
\* Math.random() is drawn from {0, 1/RandSteps, ..., (RandSteps-1)/RandSteps}
RandSteps == 4
\* rateLimited is given at most MaxFns operations
MaxFns == 3
\* at most MaxRefreshes token-refresh events are followed
MaxRefreshes == 2

DefaultMaxRetries == 3
DefaultBaseDelayMs == 1000

\* delays are kept in units of 1/DelayScale ms, so that they stay integers
DelayScale == 2 * RandSteps

(***************************************************************************)
(* utils/retry.ts                                                          *)
(***************************************************************************)
getStatusCodeResponseFirst(err) ==
    IF err.obj
    THEN IF err.respStatus.t = "number" THEN err.respStatus
         ELSE IF err.status.t = "number" THEN err.status
         ELSE IF err.code.t = "number" THEN err.code
         ELSE Undef
    ELSE Undef

\* retry.ts:48-62
getStatusCode(err) ==
    IF err.obj
    THEN IF err.code.t = "number" THEN err.code
         ELSE IF err.status.t = "number" THEN err.status
         ELSE IF err.respStatus.t = "number" THEN err.respStatus
         ELSE Undef
    ELSE Undef

isRetryableAny4xx(status) ==
    status.t = "number" /\ status.n >= 400

\* retry.ts:17-18
isRetryable(status) ==
    \/ (status.t = "number" /\ status.n = 429)
    \/ (status.t # "undefined" /\ status.t = "number" /\ status.n >= 500)

\* the condition of the for loop, retry.ts:12
loopCond(att, maxR) == att <= maxR

rethrowsOnlyFatal(status, att, maxR) == ~isRetryable(status)

\* retry.ts:20: the error is rethrown instead of waited on
rethrows(status, att, maxR) == ~isRetryable(status) \/ att = maxR

backoffFullJitter(base, att, j) == base * Pow2(att) * (2 * j)

backoffDouble(base, att, j) == base * Pow2(att + 1) * (RandSteps + 2 * j)

\* retry.ts:22 with Math.random() = j / RandSteps, in units of 1/DelayScale ms:
\* base * 2^att * (0.5 + j/RandSteps) * DelayScale
backoffDelay(base, att, j) == base * Pow2(att) * (RandSteps + 2 * j)

RetryOpts ==
    [maxRetries : {Undef} \cup {Num(n) : n \in -1 .. MaxRetriesOpt},
     baseDelayMs : {Undef, Num(1), Num(250)}]

RetryIdle ==
    /\ opts = [maxRetries |-> Undef, baseDelayMs |-> Undef]
    /\ maxRetries = DefaultMaxRetries
    /\ baseDelay = DefaultBaseDelayMs
    /\ attempt = 0
    /\ rpc = "idle"
    /\ calls = << >>
    /\ delays = << >>
    /\ result = [kind |-> "none", val |-> "", err |-> EPlain, id |-> 0]

\* retry.ts:5-12: the call of withRetry up to the first loop test
InitRetryCall ==
    /\ opts \in RetryOpts
    /\ maxRetries = Nullish(opts.maxRetries, DefaultMaxRetries)
    /\ baseDelay = Nullish(opts.baseDelayMs, DefaultBaseDelayMs)
    /\ attempt = 0
    /\ rpc = "loop"
    /\ calls = << >>
    /\ delays = << >>
    /\ result = [kind |-> "none", val |-> "", err |-> EPlain, id |-> 0]

\* one invocation of fn; sleeps is the number of sleeps that ended before it
Call(kind, val, err) ==
    [kind |-> kind, val |-> val, err |-> err, attempt |-> attempt,
     sleeps |-> Len(delays)]

\* retry.ts:14: fn() resolves and withRetry returns its value
FnResolves(v) ==
    /\ rpc = "loop"
    /\ loopCond(attempt, maxRetries)
    /\ calls' = Append(calls, Call("ok", v, EPlain))
    /\ result' = [kind |-> "return", val |-> v, err |-> EPlain, id |-> 0]
    /\ rpc' = "done"
    /\ UNCHANGED <<opts, maxRetries, baseDelay, attempt, delays>>

\* retry.ts:14-20: fn() rejects and the error is rethrown
FnRejectsThrow(e) ==
    /\ rpc = "loop"
    /\ loopCond(attempt, maxRetries)
    /\ rethrows(getStatusCode(e), attempt, maxRetries)
    /\ calls' = Append(calls, Call("err", "", e))
    /\ result' = [kind |-> "throw", val |-> "", err |-> e, id |-> Len(calls) + 1]
    /\ rpc' = "done"
    /\ UNCHANGED <<opts, maxRetries, baseDelay, attempt, delays>>

\* retry.ts:14-23: fn() rejects and the backoff sleep starts
FnRejectsSleep(e, j) ==
    /\ rpc = "loop"
    /\ loopCond(attempt, maxRetries)
    /\ ~rethrows(getStatusCode(e), attempt, maxRetries)
    /\ calls' = Append(calls, Call("err", "", e))
    /\ delays' = Append(delays, [ms |-> backoffDelay(baseDelay, attempt, j),
                                 attempt |-> attempt,
                                 afterCalls |-> Len(calls) + 1])
    /\ rpc' = "sleep"
    /\ UNCHANGED <<opts, maxRetries, baseDelay, attempt, result>>

\* retry.ts:23-24, 12: the sleep ends and the loop counter advances
SleepElapses ==
    /\ rpc = "sleep"
    /\ attempt' = attempt + 1
    /\ rpc' = "loop"
    /\ UNCHANGED <<opts, maxRetries, baseDelay, calls, delays, result>>

\* retry.ts:12, 28: the loop ends without a return or a rethrow
LoopFallsThrough ==
    /\ rpc = "loop"
    /\ ~loopCond(attempt, maxRetries)
    /\ result' = [kind |-> "throw", val |-> "", err |-> RetryExhaustedError, id |-> 0]
    /\ rpc' = "done"
    /\ UNCHANGED <<opts, maxRetries, baseDelay, attempt, calls, delays>>

(***************************************************************************)
(* service.ts: site identifiers and the permission fallback.               *)
(* An identifier is the list of the parts of its text: an optional prefix  *)
(* ("sc-domain:" or a URL scheme with "//"), a host, an optional path.     *)
(***************************************************************************)
UrlPrefixSite  == <<"https://", "example.com", "/blog/">>
DomainSite     == <<"sc-domain:", "example.com">>
BareHostSite   == <<"example.com">>
\* a URL with upper-case letters in its host, and a port
MixedCaseSite  == <<"https://", "Example.COM", ":8443", "/">>

Sites == {UrlPrefixSite, DomainSite, BareHostSite, MixedCaseSite}

\* url.startsWith('sc-domain:'), service.ts:48
startsWithScDomain(url) == Len(url) >= 1 /\ url[1] = "sc-domain:"

\* new URL(url) does not throw, service.ts:50
urlParses(url) == Len(url) >= 2 /\ url[1] \in {"https://", "http://"}

\* parsed.hostname, service.ts:51: the host without its port, in lower case
hostname(url) ==
    CASE url[2] = "Example.COM" -> "example.com"
      [] OTHER -> url[2]

normalizeUrlAlwaysPrefixes(url) == <<"sc-domain:">> \o url

normalizeUrlPrefixesAnything(url) ==
    IF startsWithScDomain(url) THEN url
    ELSE IF urlParses(url) THEN <<"sc-domain:", hostname(url)>>
    ELSE <<"sc-domain:">> \o url

normalizeUrlKeepsRest(url) ==
    IF startsWithScDomain(url) THEN url
    ELSE IF urlParses(url) THEN <<"sc-domain:">> \o Tail(url)
    ELSE url

\* service.ts:47-55
normalizeUrl(url) ==
    IF startsWithScDomain(url) THEN url
    ELSE IF urlParses(url) THEN <<"sc-domain:", hostname(url)>>
    ELSE url

\* err.message.toLowerCase(), service.ts:71
toLowerCase(m) ==
    CASE m = "Not Found" -> "not found"
      [] m = "Quota exceeded" -> "quota exceeded"
      [] m = "Internal error" -> "internal error"
      [] m = "Service Unavailable" -> "service unavailable"
      [] m = "ECONNRESET" -> "econnreset"
      [] m = "User does not have sufficient Permission for site"
           -> "user does not have sufficient permission for site"
      [] OTHER -> m

\* .includes('permission'), service.ts:71
includesPermission(m) ==
    m \in {"user does not have sufficient permission for site", "permission"}

isPermissionErrorAnyError(e) == e.isError

\* service.ts:69-72: the condition under which the fallback runs
isPermissionError(e) == e.isError /\ includesPermission(toLowerCase(e.message))

(***************************************************************************)
(* utils/pagination.ts                                                     *)
(***************************************************************************)
\* the per-request row ceiling, pagination.ts:16
RowCeiling == 25000
DefaultMaxRows == 100000

\* bounds of the small calls tried
MaxRowsSmall == 3
MaxPageSmall == 2

\* the rows of a response: data.rows may be missing; a present list is
\* tag_1 .. tag_n, so that two pages with one tag hold the same rows
NoRows == [present |-> FALSE, n |-> 0, tag |-> "-"]
RowList(n, tag) == [present |-> TRUE, n |-> n, tag |-> IF n = 0 THEN "-" ELSE tag]
Tags == {"A", "B"}

\* what the remote API may answer to a request for lim rows
Responses(lim) ==
    {NoRows} \cup
    {RowList(n, tag) : n \in {k \in {0, 1, lim - 1, lim, lim + 1} : k >= 0}, tag \in Tags}

PageErrors == {E404, E503, EPerm403, EThrownString}

\* data.rows ?? [], pagination.ts:29
rowsOrEmpty(r) == IF r.present THEN r ELSE RowList(0, "-")

\* pagination.ts:16
resolvePageSize(o) == Min(Nullish(o.pageSize, RowCeiling), RowCeiling)

pageLimitIgnoresRemaining(size, maxR, start) == size

\* pagination.ts:21
pageLimit(size, maxR, start) == Min(size, maxR - start)

requestBodyCallerWins(b, lim, start) ==
    [rowLimit |-> IF b.rowLimit.t = "undefined" THEN Num(lim) ELSE b.rowLimit,
     startRow |-> IF b.startRow.t = "undefined" THEN Num(start) ELSE b.startRow]

\* { ...body, rowLimit: limit, startRow }, pagination.ts:22-26
requestBody(b, lim, start) ==
    [b EXCEPT !.rowLimit = Num(lim), !.startRow = Num(start)]

pushRowsDistinct(all, rows) ==
    IF rows.n = 0 \/ \E i \in 1 .. Len(all) : all[i].tag = rows.tag
    THEN all
    ELSE Append(all, [n |-> rows.n, tag |-> rows.tag])

\* allRows.push(...rows), pagination.ts:30; allRows is kept as the list of
\* the non-empty row lists pushed
pushRows(all, rows) ==
    IF rows.n = 0 THEN all ELSE Append(all, [n |-> rows.n, tag |-> rows.tag])

shortPageOnlyEmpty(n, lim) == n = 0

\* pagination.ts:33
shortPage(n, lim) == n < lim

nextStartRowByLimit(start, n) == start + limit

nextStartRowByOne(start, n) == start + 1

\* pagination.ts:34
nextStartRow(start, n) == start + n

RECURSIVE TotalRows(_)
TotalRows(all) ==
    IF all = << >> THEN 0 ELSE all[1].n + TotalRows(Tail(all))

PageOpts ==
    [maxRows : {Num(n) : n \in 0 .. MaxRowsSmall},
     pageSize : {Num(n) : n \in 1 .. MaxPageSmall}]
    \cup
    [maxRows : {Undef, Num(25001), Num(60000)},
     pageSize : {Undef, Num(30000)}]

Bodies == {[rowLimit |-> Undef, startRow |-> Undef],
           [rowLimit |-> Num(50000), startRow |-> Num(7)]}

NoPageResult == [kind |-> "none", rows |-> << >>, err |-> EPlain]

PageIdle ==
    /\ pageOpts = [maxRows |-> Undef, pageSize |-> Undef]
    /\ siteUrl = << >>
    /\ body = [rowLimit |-> Undef, startRow |-> Undef]
    /\ maxRows = 0
    /\ pageSize = 0
    /\ allRows = << >>
    /\ startRow = 0
    /\ limit = 0
    /\ ppc = "idle"
    /\ pending = EPlain
    /\ fetches = << >>
    /\ requests = << >>
    /\ pageResult = NoPageResult

\* pagination.ts:9-18: the call of paginateSearchAnalytics up to the first
\* loop test
InitPageCall ==
    /\ pageOpts \in PageOpts
    /\ siteUrl \in Sites
    /\ body \in Bodies
    /\ maxRows = Nullish(pageOpts.maxRows, DefaultMaxRows)
    /\ pageSize = resolvePageSize(pageOpts)
    /\ allRows = << >>
    /\ startRow = 0
    /\ limit = 0
    /\ ppc = "loop"
    /\ pending = EPlain
    /\ fetches = << >>
    /\ requests = << >>
    /\ pageResult = NoPageResult

\* one remote searchanalytics.query request
Request(site, b, via) ==
    [siteUrl |-> site, rowLimit |-> b.rowLimit, startRow |-> b.startRow,
     fetch |-> Len(fetches) + (IF via = "primary" THEN 1 ELSE 0), via |-> via]

\* pagination.ts:20-26 and service.ts:92-95: the loop test holds, the page is
\* requested from service.searchAnalytics, which issues the primary query
FetchPage ==
    /\ ppc = "loop"
    /\ startRow < maxRows
    /\ LET lim == pageLimit(pageSize, maxRows, startRow)
           b == requestBody(body, lim, startRow)
       IN  /\ limit' = lim
           /\ fetches' = Append(fetches,
                 [limit |-> lim, startRow |-> startRow, body |-> b,
                  accumulated |-> allRows, state |-> "pending", resp |-> NoRows,
                  errors |-> << >>])
           /\ requests' = Append(requests, Request(siteUrl, b, "primary"))
    /\ ppc' = "primary"
    /\ UNCHANGED <<pageOpts, siteUrl, body, maxRows, pageSize, allRows, startRow,
                   pending, pageResult>>

\* pagination.ts:20, 37: the loop test fails and allRows is returned
LoopEnds ==
    /\ ppc = "loop"
    /\ ~(startRow < maxRows)
    /\ pageResult' = [kind |-> "return", rows |-> allRows, err |-> EPlain]
    /\ ppc' = "done"
    /\ UNCHANGED <<pageOpts, siteUrl, body, maxRows, pageSize, allRows, startRow,
                   limit, pending, fetches, requests>>

\* pagination.ts:28-37: the response of the page fetch is appended; a short
\* page ends the loop and allRows is returned, else startRow advances
HandleResponse(r) ==
    LET rows == rowsOrEmpty(r)
        newAll == pushRows(allRows, rows)
    IN  /\ allRows' = newAll
        /\ fetches' = [fetches EXCEPT ![Len(fetches)].state = "ok",
                                      ![Len(fetches)].resp = r]
        /\ IF shortPage(rows.n, limit)
           THEN /\ pageResult' = [kind |-> "return", rows |-> newAll, err |-> EPlain]
                /\ ppc' = "done"
                /\ startRow' = startRow
           ELSE /\ startRow' = nextStartRow(startRow, rows.n)
                /\ ppc' = "loop"
                /\ pageResult' = pageResult
        /\ UNCHANGED <<pageOpts, siteUrl, body, maxRows, pageSize, limit, pending,
                       requests>>

FetchThrowsReturnsPartial(e) ==
    /\ fetches' = [fetches EXCEPT ![Len(fetches)].state = "err",
                                  ![Len(fetches)].errors = Append(@, e)]
    /\ pageResult' = [kind |-> "return", rows |-> allRows, err |-> EPlain]
    /\ ppc' = "done"
    /\ UNCHANGED <<pageOpts, siteUrl, body, maxRows, pageSize, allRows, startRow,
                   limit, pending, requests>>

\* the error of service.searchAnalytics leaves paginateSearchAnalytics
\* (no catch in pagination.ts:20-35)
FetchThrows(e) ==
    /\ fetches' = [fetches EXCEPT ![Len(fetches)].state = "err",
                                  ![Len(fetches)].errors = Append(@, e)]
    /\ pageResult' = [kind |-> "throw", rows |-> << >>, err |-> e]
    /\ ppc' = "done"
    /\ UNCHANGED <<pageOpts, siteUrl, body, maxRows, pageSize, allRows, startRow,
                   limit, pending, requests>>

\* service.ts:66-67: the primary query resolves
PrimaryResolves(r) ==
    /\ ppc = "primary"
    /\ HandleResponse(r)

\* service.ts:68-73, 96-100: the primary query fails with a permission error
\* and the fallback query is issued for the normalized identifier
PrimaryRejectsFallback(e) ==
    /\ ppc = "primary"
    /\ isPermissionError(e)
    /\ pending' = e
    /\ requests' = Append(requests,
          Request(normalizeUrl(siteUrl), fetches[Len(fetches)].body, "fallback"))
    /\ fetches' = [fetches EXCEPT ![Len(fetches)].errors = Append(@, e)]
    /\ ppc' = "fallback"
    /\ UNCHANGED <<pageOpts, siteUrl, body, maxRows, pageSize, allRows, startRow,
                   limit, pageResult>>

\* service.ts:68-75: the primary query fails with any other error
PrimaryRejectsThrow(e) ==
    /\ ppc = "primary"
    /\ ~isPermissionError(e)
    /\ FetchThrows(e)

\* service.ts:73: the fallback query resolves
FallbackResolves(r) ==
    /\ ppc = "fallback"
    /\ HandleResponse(r)

\* service.ts:73: the fallback query fails; its error propagates
FallbackRejects(e) ==
    /\ ppc = "fallback"
    /\ FetchThrows(e)

(***************************************************************************)
(* rateLimited (retry.ts:32-42).                                           *)
(***************************************************************************)
\* the operations are told apart by their position in the input
FnLists == {[k \in 1 .. n |-> k] : n \in 0 .. MaxFns}
DelayChoices == {0, 1000}
RateErrors == {E503, EThrownString}

NoRateResult == [kind |-> "none", val |-> << >>, err |-> EPlain]

RateIdle ==
    /\ fns = << >>
    /\ delayMs = 0
    /\ rateI = 0
    /\ results = << >>
    /\ ratePc = "idle"
    /\ rateLog = << >>
    /\ rateResult = NoRateResult

\* retry.ts:32-37: rateLimited(fns, delayMs) is called
InitRateCall ==
    /\ fns \in FnLists
    /\ delayMs \in DelayChoices
    /\ rateI = 0
    /\ results = << >>
    /\ ratePc = "loop"
    /\ rateLog = << >>
    /\ rateResult = NoRateResult

sleepBeforeAlways(i) == TRUE

\* retry.ts:38: if (i > 0) await sleep(delayMs)
sleepBefore(i) == i > 0

rejectedKeepsResults(res, e) == [kind |-> "return", val |-> res, err |-> e]

\* retry.ts:39: a rejection of await fns[i]() is not caught and rejects the
\* promise of rateLimited; results is not handed out
rejected(res, e) == [kind |-> "throw", val |-> << >>, err |-> e]

\* retry.ts:37-38: the loop test holds and the sleep before operation i elapses
RateSleep ==
    /\ ratePc = "loop"
    /\ rateI < Len(fns)
    /\ sleepBefore(rateI)
    /\ rateLog' = Append(rateLog, [ev |-> "wait", ms |-> delayMs])
    /\ ratePc' = "call"
    /\ UNCHANGED <<fns, delayMs, rateI, results, rateResult>>

\* retry.ts:39: fns[i]() is called
OpStarts ==
    /\ \/ ratePc = "call"
       \/ ratePc = "loop" /\ rateI < Len(fns) /\ ~sleepBefore(rateI)
    /\ rateLog' = Append(rateLog, [ev |-> "start", fn |-> fns[rateI + 1]])
    /\ ratePc' = "running"
    /\ UNCHANGED <<fns, delayMs, rateI, results, rateResult>>

\* retry.ts:39, 37: the operation resolves, its value is pushed and i++
OpResolves(v) ==
    /\ ratePc = "running"
    /\ results' = Append(results, v)
    /\ rateLog' = Append(rateLog, [ev |-> "end", fn |-> fns[rateI + 1], val |-> v])
    /\ rateI' = rateI + 1
    /\ ratePc' = "loop"
    /\ UNCHANGED <<fns, delayMs, rateResult>>

\* retry.ts:39: the operation rejects
OpRejects(e) ==
    /\ ratePc = "running"
    /\ rateLog' = Append(rateLog, [ev |-> "fail", fn |-> fns[rateI + 1], err |-> e])
    /\ rateResult' = rejected(results, e)
    /\ ratePc' = "done"
    /\ UNCHANGED <<fns, delayMs, rateI, results>>

\* retry.ts:37, 41: the loop test fails and results is returned
RateReturns ==
    /\ ratePc = "loop"
    /\ ~(rateI < Len(fns))
    /\ rateResult' = [kind |-> "return", val |-> results, err |-> EPlain]
    /\ ratePc' = "done"
    /\ UNCHANGED <<fns, delayMs, rateI, results, rateLog>>

(***************************************************************************)
(* page_health_dashboard (index.ts:409-414, 551-552): four sub-queries     *)
(* combined with Promise.allSettled (README, Multi-API Intelligence).      *)
(***************************************************************************)
Sections == {"inspection", "analytics", "speed", "vitals"}
AggErrors == {E503, EPerm403}

NotIssued == [state |-> "none", value |-> "", reason |-> EPlain]
Pending == [state |-> "pending", value |-> "", reason |-> EPlain]
Fulfilled(v) == [state |-> "fulfilled", value |-> v, reason |-> EPlain]
Rejected(e) == [state |-> "rejected", value |-> "", reason |-> e]

NoReport == [s \in Sections |-> [kind |-> "none", value |-> "", err |-> EPlain]]
NoAggResult == [kind |-> "none", err |-> EPlain]

AggIdle ==
    /\ apiKey = FALSE
    /\ settled = [s \in Sections |-> NotIssued]
    /\ settleOrder = << >>
    /\ report = NoReport
    /\ aggPc = "idle"
    /\ aggResult = NoAggResult

InitAggCall ==
    /\ apiKey \in BOOLEAN
    /\ settled = [s \in Sections |-> NotIssued]
    /\ settleOrder = << >>
    /\ report = NoReport
    /\ aggPc = "start"
    /\ aggResult = NoAggResult

configuredAlways(s, key) == TRUE

\* index.ts:217, 412: only the CrUX section needs GOOGLE_CLOUD_API_KEY
configured(s, key) == s # "vitals" \/ key

allRejectsOnFirst(st) ==
    \/ \A s \in Sections : st[s].state # "pending"
    \/ \E s \in Sections : st[s].state = "rejected"

\* Promise.allSettled resolves once no given promise is pending
allSettled(st) == \A s \in Sections : st[s].state # "pending"

sectionOutcomeZeroOnFailure(p) ==
    CASE p.state = "fulfilled" -> [kind |-> "ok", value |-> p.value, err |-> EPlain]
      [] p.state = "rejected" -> [kind |-> "ok", value |-> "", err |-> EPlain]
      [] p.state = "none" -> [kind |-> "notConfigured", value |-> "", err |-> EPlain]
      [] OTHER -> [kind |-> "none", value |-> "", err |-> EPlain]

sectionOutcomeUnconfiguredFails(p) ==
    CASE p.state = "fulfilled" -> [kind |-> "ok", value |-> p.value, err |-> EPlain]
      [] p.state = "rejected" -> [kind |-> "failed", value |-> "", err |-> p.reason]
      [] p.state = "none" -> [kind |-> "failed", value |-> "", err |-> EPlain]
      [] OTHER -> [kind |-> "none", value |-> "", err |-> EPlain]

\* the report entry of one section: its value, its failure, or the typed
\* 'not configured' outcome of a section that was not issued
sectionOutcome(p) ==
    CASE p.state = "fulfilled" -> [kind |-> "ok", value |-> p.value, err |-> EPlain]
      [] p.state = "rejected" -> [kind |-> "failed", value |-> "", err |-> p.reason]
      [] p.state = "none" -> [kind |-> "notConfigured", value |-> "", err |-> EPlain]
      [] OTHER -> [kind |-> "none", value |-> "", err |-> EPlain]

\* all configured sub-queries are issued together
IssueAll ==
    /\ aggPc = "start"
    /\ settled' = [s \in Sections |->
                     IF configured(s, apiKey) THEN Pending ELSE NotIssued]
    /\ aggPc' = "waiting"
    /\ UNCHANGED <<apiKey, settleOrder, report, aggResult>>

SectionFulfils(s, v) ==
    /\ aggPc = "waiting"
    /\ settled[s].state = "pending"
    /\ settled' = [settled EXCEPT ![s] = Fulfilled(v)]
    /\ settleOrder' = Append(settleOrder, s)
    /\ UNCHANGED <<apiKey, report, aggPc, aggResult>>

SectionRejects(s, e) ==
    /\ aggPc = "waiting"
    /\ settled[s].state = "pending"
    /\ settled' = [settled EXCEPT ![s] = Rejected(e)]
    /\ settleOrder' = Append(settleOrder, s)
    /\ UNCHANGED <<apiKey, report, aggPc, aggResult>>

\* the await on Promise.allSettled resumes and the report is built
BuildReport ==
    /\ aggPc = "waiting"
    /\ allSettled(settled)
    /\ report' = [s \in Sections |-> sectionOutcome(settled[s])]
    /\ aggResult' = [kind |-> "return", err |-> EPlain]
    /\ aggPc' = "done"
    /\ UNCHANGED <<apiKey, settled, settleOrder>>

(***************************************************************************)
(* The CallTool request handler (index.ts:506-614) with the tool handlers  *)
(* of tools/inspection and tools/sitemaps.                                 *)
(***************************************************************************)
\* the tools whose handler is among the sources
ParsedTools == {"index_inspect", "list_sitemaps", "get_sitemap",
                "submit_sitemap", "delete_sitemap"}
\* index.ts:315-496: the names of TOOLS, which the ListTools handler
\* (index.ts:498-500) returns, in order
TOOLS == <<
    "list_sites", "search_analytics", "enhanced_search_analytics",
    "detect_quick_wins", "index_inspect", "list_sitemaps", "get_sitemap",
    "submit_sitemap", "delete_sitemap", "compare_periods", "detect_content_decay",
    "detect_cannibalization", "diff_keywords", "batch_inspect", "ctr_analysis",
    "search_type_breakdown", "page_health_dashboard", "indexing_health_report",
    "serp_feature_tracking", "cannibalization_resolver", "drop_alerts", "get_site",
    "add_site", "delete_site", "mobile_friendly_test", "pagespeed_insights",
    "indexing_publish", "indexing_status", "crux_query", "crux_history">>

AdvertisedTools == {TOOLS[i] : i \in 1 .. Len(TOOLS)}

DispatchedToolsWithoutLast == {
    "list_sites", "search_analytics", "enhanced_search_analytics",
    "detect_quick_wins", "index_inspect", "list_sitemaps", "get_sitemap",
    "submit_sitemap", "delete_sitemap", "compare_periods", "detect_content_decay",
    "detect_cannibalization", "diff_keywords", "batch_inspect", "ctr_analysis",
    "search_type_breakdown", "page_health_dashboard", "indexing_health_report",
    "serp_feature_tracking", "cannibalization_resolver", "drop_alerts", "get_site",
    "add_site", "delete_site", "mobile_friendly_test", "pagespeed_insights",
    "indexing_publish", "indexing_status", "crux_query"}

\* index.ts:516-583: the case labels of the switch
DispatchedTools == {
    "list_sites", "search_analytics", "enhanced_search_analytics",
    "detect_quick_wins", "index_inspect", "list_sitemaps", "get_sitemap",
    "submit_sitemap", "delete_sitemap", "compare_periods", "detect_content_decay",
    "detect_cannibalization", "diff_keywords", "batch_inspect", "ctr_analysis",
    "search_type_breakdown", "page_health_dashboard", "indexing_health_report",
    "serp_feature_tracking", "cannibalization_resolver", "drop_alerts", "get_site",
    "add_site", "delete_site", "mobile_friendly_test", "pagespeed_insights",
    "indexing_publish", "indexing_status", "crux_query", "crux_history"}

\* the dispatched tools whose handler is not among the sources: what they do
\* is left open
OpaqueTools == DispatchedTools \ ParsedTools
UnknownTools == {"no_such_tool"}
ToolNames == AdvertisedTools \cup DispatchedTools \cup UnknownTools

Fields == {"siteUrl", "feedpath", "sitemapIndex", "inspectionUrl", "languageCode"}

\* a schema is the list of its string fields, in declaration order.  The
\* siteUrl field that IndexInspectSchema takes over from SiteUrlSchema
\* (schemas/base) is declared outside these sources and is left out.
Field(f, required) == [field |-> f, required |-> required]

schemaOf(name) ==
    CASE name = "index_inspect" ->
            <<Field("inspectionUrl", TRUE), Field("languageCode", FALSE)>>
      [] name = "list_sitemaps" ->
            <<Field("siteUrl", FALSE), Field("sitemapIndex", FALSE)>>
      [] name = "get_sitemap" ->
            <<Field("siteUrl", FALSE), Field("feedpath", FALSE)>>
      [] name = "submit_sitemap" ->
            <<Field("siteUrl", TRUE), Field("feedpath", TRUE)>>
      [] name = "delete_sitemap" ->
            <<Field("siteUrl", TRUE), Field("feedpath", TRUE)>>

\* the service method each handler calls
serviceMethodOf(name) ==
    CASE name = "index_inspect" -> "indexInspect"
      [] name = "list_sitemaps" -> "listSitemaps"
      [] name = "get_sitemap" -> "getSitemap"
      [] name = "submit_sitemap" -> "submitSitemap"
      [] name = "delete_sitemap" -> "deleteSitemap"

\* request.params.arguments: undefined, a value that is no object, or an
\* object whose fields are absent, a string or a number
ArgsUndefined == [kind |-> "undefined", fields |-> [f \in Fields |-> "absent"]]
ArgsString == [kind |-> "string", fields |-> [f \in Fields |-> "absent"]]
ArgsObjects == {[kind |-> "object", fields |-> fs] :
                   fs \in [Fields -> {"absent", "string", "number"}]}
ToolArgs == {ArgsUndefined, ArgsString} \cup ArgsObjects

Issue(path, message) == [path |-> path, message |-> message]

\* zod's issues for one z.string() field
RECURSIVE fieldIssues(_, _)
fieldIssues(schema, fields) ==
    IF schema = << >> THEN << >>
    ELSE LET spec == Head(schema)
             t == fields[spec.field]
             here == IF t = "number"
                         THEN <<Issue(<<spec.field>>, "Expected string, received number")>>
                     ELSE IF t = "absent" /\ spec.required
                         THEN <<Issue(<<spec.field>>, "Required")>>
                     ELSE << >>
         IN  here \o fieldIssues(Tail(schema), fields)

\* Schema.parse(raw): the issues zod raises, none when raw is valid
parseIssues(name, raw) ==
    IF raw.kind = "object" THEN fieldIssues(schemaOf(name), raw.fields)
    ELSE <<Issue(<< >>, "Expected object, received " \o raw.kind)>>

\* Array.prototype.join('.')
RECURSIVE join(_)
join(path) ==
    IF path = << >> THEN ""
    ELSE IF Len(path) = 1 THEN path[1]
    ELSE path[1] \o "." \o join(Tail(path))

\* what a handler can throw
Thrown(cls, message, code, statusCode, issues) ==
    [cls |-> cls, message |-> message, code |-> code, statusCode |-> statusCode,
     issues |-> issues]

ZodError(issues) == Thrown("ZodError", "validation failed", "", 0, issues)
GSCPermissionError == Thrown("GSCError", "Permission denied", "PERMISSION_ERROR", 403, << >>)
NetworkError == Thrown("Error", "socket hang up", "", 0, << >>)
UnknownToolError(name) == Thrown("Error", "Unknown tool: " \o name, "", 0, << >>)
ThrownText == Thrown("string", "timeout", "", 0, << >>)

ServiceErrors == {GSCPermissionError, NetworkError, ThrownText}
OpaqueErrors == ServiceErrors \cup {ZodError(<<Issue(<<"siteUrl">>, "Required")>>)}

\* error instanceof C: ZodError and GSCError are subclasses of Error
instanceOf(error, c) ==
    \/ error.cls = c
    \/ c = "Error" /\ error.cls \in {"ZodError", "GSCError"}

\* a tool result: isError and the keys of the JSON payload with their values;
\* text holds details when it is a string
Payload(isError, keys, error, code, statusCode, details, text) ==
    [isError |-> isError, keys |-> keys, error |-> error, code |-> code,
     statusCode |-> statusCode, details |-> details, text |-> text]

NoToolResult == Payload(FALSE, {}, "", "", 0, << >>, "pending")

\* utils/types: jsonResult(data)
jsonResult(data) == Payload(FALSE, {"data"}, "", "", 0, << >>, data)

zodDetailsFirstOnly(issues) ==
    <<[path |-> join(issues[1].path), message |-> issues[1].message]>>

\* index.ts:591-594: error.errors.map(...)
zodDetails(issues) ==
    [k \in 1 .. Len(issues) |->
        [path |-> join(issues[k].path), message |-> issues[k].message]]

\* index.ts:510-514
argumentsRequired == Payload(TRUE, {"error"}, "Arguments are required", "", 0, << >>, "")

catchResultErrorFirst(error) ==
    IF instanceOf(error, "Error")
        THEN Payload(TRUE, {"error"}, error.message, "", 0, << >>, "")
    ELSE Payload(TRUE, {"error", "details"}, "Unknown error", "", 0, << >>, error.message)

catchResultSwallows(error) ==
    IF instanceOf(error, "Error")
        THEN Payload(TRUE, {"error"}, error.message, "", 0, << >>, "")
    ELSE jsonResult(error.message)

\* index.ts:587-613: the catch block
catchResult(error) ==
    IF instanceOf(error, "ZodError")
        THEN Payload(TRUE, {"error", "details"}, "Invalid arguments", "", 0,
                     zodDetails(error.issues), "")
    ELSE IF instanceOf(error, "GSCError")
        THEN Payload(TRUE, {"error", "code", "statusCode"}, error.message,
                     error.code, error.statusCode, << >>, "")
    ELSE IF instanceOf(error, "Error")
        THEN Payload(TRUE, {"error"}, error.message, "", 0, << >>, "")
    ELSE Payload(TRUE, {"error", "details"}, "Unknown error", "", 0, << >>, error.message)

argsMissingKnownOnly(name, raw) ==
    raw.kind = "undefined" /\ name # "list_sites" /\ name \in DispatchedTools

\* index.ts:510: !args && name !== 'list_sites'
argsMissing(name, raw) == raw.kind = "undefined" /\ name # "list_sites"

ToolIdle ==
    /\ toolName = ""
    /\ toolArgs = ArgsUndefined
    /\ toolPc = "idle"
    /\ serviceCalls = << >>
    /\ thrown = << >>
    /\ toolResult = NoToolResult

\* index.ts:506-507: a CallTool request arrives
InitToolCall ==
    /\ toolName \in ToolNames
    /\ toolArgs \in ToolArgs
    /\ toolPc = "start"
    /\ serviceCalls = << >>
    /\ thrown = << >>
    /\ toolResult = NoToolResult

\* the catch block handles error and the handler resolves
Caught(error) ==
    /\ thrown' = Append(thrown, error)
    /\ toolResult' = catchResult(error)
    /\ toolPc' = "done"

\* index.ts:510-514
ArgumentsRequired ==
    /\ toolPc = "start"
    /\ argsMissing(toolName, toolArgs)
    /\ toolResult' = argumentsRequired
    /\ toolPc' = "done"
    /\ UNCHANGED <<toolName, toolArgs, serviceCalls, thrown>>

\* part_002:9, 31, 43, 55, 67: Schema.parse(raw) throws
ParseThrows ==
    /\ toolPc = "start"
    /\ ~argsMissing(toolName, toolArgs)
    /\ toolName \in ParsedTools
    /\ parseIssues(toolName, toolArgs) # << >>
    /\ Caught(ZodError(parseIssues(toolName, toolArgs)))
    /\ UNCHANGED <<toolName, toolArgs, serviceCalls>>

\* part_002:9-10, 31-32, ...: the arguments parse and the service is called
CallService ==
    /\ toolPc = "start"
    /\ ~argsMissing(toolName, toolArgs)
    /\ toolName \in ParsedTools
    /\ parseIssues(toolName, toolArgs) = << >>
    /\ serviceCalls' = Append(serviceCalls, serviceMethodOf(toolName))
    /\ toolPc' = "remote"
    /\ UNCHANGED <<toolName, toolArgs, thrown, toolResult>>

\* part_002:15: return jsonResult(response.data)
ServiceResolves(data) ==
    /\ toolPc = "remote"
    /\ toolResult' = jsonResult(data)
    /\ toolPc' = "done"
    /\ UNCHANGED <<toolName, toolArgs, serviceCalls, thrown>>

\* part_002:10: the awaited service call rejects
ServiceRejects(error) ==
    /\ toolPc = "remote"
    /\ Caught(error)
    /\ UNCHANGED <<toolName, toolArgs, serviceCalls>>

\* index.ts:517-583: a handler outside the sources returns a result
OpaqueResolves(data) ==
    /\ toolPc = "start"
    /\ ~argsMissing(toolName, toolArgs)
    /\ toolName \in OpaqueTools
    /\ toolResult' = jsonResult(data)
    /\ toolPc' = "done"
    /\ UNCHANGED <<toolName, toolArgs, serviceCalls, thrown>>

\* index.ts:517-583: a handler outside the sources throws
OpaqueThrows(error) ==
    /\ toolPc = "start"
    /\ ~argsMissing(toolName, toolArgs)
    /\ toolName \in OpaqueTools
    /\ Caught(error)
    /\ UNCHANGED <<toolName, toolArgs, serviceCalls>>

\* index.ts:584-585: default: throw new Error(`Unknown tool: ${name}`)
UnknownTool ==
    /\ toolPc = "start"
    /\ ~argsMissing(toolName, toolArgs)
    /\ toolName \notin ParsedTools \cup OpaqueTools
    /\ Caught(UnknownToolError(toolName))
    /\ UNCHANGED <<toolName, toolArgs, serviceCalls>>

(***************************************************************************)
(* The methods of SearchConsoleService (service.ts:83-163).                *)
(***************************************************************************)
\* service.ts:92-102, 117-163: the methods that go through withPermissionFallback
FallbackMethods == {"searchAnalytics", "listSitemaps", "getSitemap",
                    "submitSitemap", "deleteSitemap"}
\* service.ts:83-86, 108-111: the methods that call the API directly
DirectMethods == {"listSites", "indexInspect"}
ServiceMethods == FallbackMethods \cup DirectMethods

SvcErrors == {E429, E503, E404, EPerm403, EThrownString}

hasFallback(m) == m \in FallbackMethods

NoSvcResult == [kind |-> "none", val |-> "", err |-> EPlain]

SvcIdle ==
    /\ svcMethod = ""
    /\ svcSite = << >>
    /\ svcPc = "idle"
    /\ svcRequests = << >>
    /\ svcErrors = << >>
    /\ svcResult = NoSvcResult

\* a service method is called; listSites takes no site identifier
InitSvcCall ==
    /\ svcMethod \in ServiceMethods
    /\ svcSite \in (IF svcMethod = "listSites" THEN {<< >>} ELSE Sites)
    /\ svcPc = "start"
    /\ svcRequests = << >>
    /\ svcErrors = << >>
    /\ svcResult = NoSvcResult

SvcRequest(site, via) == [method |-> svcMethod, siteUrl |-> site, via |-> via]

\* service.ts:85, 94-95, 110, 119-120, ...: the API request is issued
SvcOperation ==
    /\ svcPc = "start"
    /\ svcRequests' = Append(svcRequests, SvcRequest(svcSite, "operation"))
    /\ svcPc' = "operation"
    /\ UNCHANGED <<svcMethod, svcSite, svcErrors, svcResult>>

SvcResolves(v) ==
    /\ svcPc \in {"operation", "fallback"}
    /\ svcResult' = [kind |-> "return", val |-> v, err |-> EPlain]
    /\ svcPc' = "done"
    /\ UNCHANGED <<svcMethod, svcSite, svcRequests, svcErrors>>

\* service.ts:68-73: a permission error of the operation starts the fallback
SvcOperationRejectsFallback(e) ==
    /\ svcPc = "operation"
    /\ hasFallback(svcMethod)
    /\ isPermissionError(e)
    /\ svcErrors' = Append(svcErrors, e)
    /\ svcRequests' = Append(svcRequests, SvcRequest(normalizeUrl(svcSite), "fallback"))
    /\ svcPc' = "fallback"
    /\ UNCHANGED <<svcMethod, svcSite, svcResult>>

\* service.ts:75, 85, 110: any other rejection of the operation propagates
SvcOperationRejectsThrow(e) ==
    /\ svcPc = "operation"
    /\ ~(hasFallback(svcMethod) /\ isPermissionError(e))
    /\ svcErrors' = Append(svcErrors, e)
    /\ svcResult' = [kind |-> "throw", val |-> "", err |-> e]
    /\ svcPc' = "done"
    /\ UNCHANGED <<svcMethod, svcSite, svcRequests>>

\* service.ts:73: a rejection of the fallback propagates
SvcFallbackRejects(e) ==
    /\ svcPc = "fallback"
    /\ svcErrors' = Append(svcErrors, e)
    /\ svcResult' = [kind |-> "throw", val |-> "", err |-> e]
    /\ svcPc' = "done"
    /\ UNCHANGED <<svcMethod, svcSite, svcRequests>>

(***************************************************************************)
(* loadCredentials (index.ts:101-168).                                     *)
(***************************************************************************)
CredSources == <<"GOOGLE_CREDENTIALS", "GOOGLE_CREDENTIALS_PATH",
                 "GOOGLE_APPLICATION_CREDENTIALS">>

\* GOOGLE_CREDENTIALS: unset, JSON with or without client_email, text that is
\* no JSON, or JSON whose temporary file cannot be written
JsonStates == {"unset", "ok", "okNoEmail", "unparseable", "writeFails"}
\* the two path variables: unset, a file with JSON with or without
\* client_email, a path with no file, or a file that is no JSON
PathStates == {"unset", "ok", "okNoEmail", "missing", "unparseable"}

\* if (process.env.X)
isSet(st) == st # "unset"

loadsWheneverSet(st) == st # "unset"

\* the try block of a source reaches its return
loads(st) == st \in {"ok", "okNoEmail"}

\* index.ts:111, 130, 149: credentials.client_email || 'unknown service account'
identityOf(st) ==
    IF st = "ok" THEN "sa@project.iam.gserviceaccount.com"
    ELSE "unknown service account"

\* index.ts:106, 125, 144: the path returned for a source
pathOf(k) == IF k = 1 THEN "tmpdir/gsc-credentials.json" ELSE CredSources[k]

NoCredResult == [kind |-> "none", path |-> "", identity |-> "", source |-> 0]

CredIdle ==
    /\ credEnv = [k \in 1 .. 3 |-> "unset"]
    /\ credPc = "idle"
    /\ credTemp = FALSE
    /\ credResult = NoCredResult

InitCredCall ==
    /\ credEnv \in {<<a, b, c>> : a \in JsonStates, b \in PathStates, c \in PathStates}
    /\ credPc = "p1"
    /\ credTemp = FALSE
    /\ credResult = NoCredResult

CredReturn(k) ==
    [kind |-> "return", path |-> pathOf(k), identity |-> identityOf(credEnv[k]),
     source |-> k]

\* index.ts:103-120: priority 1, GOOGLE_CREDENTIALS
TryCredentialsJson ==
    /\ credPc = "p1"
    /\ credTemp' = (isSet(credEnv[1]) /\ credEnv[1] \in {"ok", "okNoEmail"})
    /\ IF isSet(credEnv[1]) /\ loads(credEnv[1])
       THEN credResult' = CredReturn(1) /\ credPc' = "done"
       ELSE credResult' = credResult /\ credPc' = "p2"
    /\ UNCHANGED credEnv

\* index.ts:122-143: priority 2, GOOGLE_CREDENTIALS_PATH
TryCredentialsPath ==
    /\ credPc = "p2"
    /\ IF isSet(credEnv[2]) /\ loads(credEnv[2])
       THEN credResult' = CredReturn(2) /\ credPc' = "done"
       ELSE credResult' = credResult /\ credPc' = "p3"
    /\ UNCHANGED <<credEnv, credTemp>>

\* index.ts:145-163: priority 3, GOOGLE_APPLICATION_CREDENTIALS
TryApplicationCredentials ==
    /\ credPc = "p3"
    /\ IF isSet(credEnv[3]) /\ loads(credEnv[3])
       THEN credResult' = CredReturn(3) /\ credPc' = "done"
       ELSE credResult' = credResult /\ credPc' = "none"
    /\ UNCHANGED <<credEnv, credTemp>>

\* index.ts:165-167: throw new Error('Service Account credentials not found...')
CredentialsNotFound ==
    /\ credPc = "none"
    /\ credResult' = [kind |-> "throw", path |-> "", identity |-> "", source |-> 0]
    /\ credPc' = "done"
    /\ UNCHANGED <<credEnv, credTemp>>

(***************************************************************************)
(* loadTokens and the 'tokens' event handler (index.ts:171-211, 247-272).  *)
(***************************************************************************)
\* a key that an object does not have
Absent == "absent"

Tokens(access, refresh, expiry) ==
    [access_token |-> access, refresh_token |-> refresh, expiry_date |-> expiry]

EnvTokens == Tokens("env-access", "env-refresh", 100)
FileTokens(k) == Tokens(IF k = 1 THEN "file1-access" ELSE "file2-access", "file-refresh", 100)
NoTokens == Tokens(Absent, Absent, 0)

TokenFile(state, content) == [state |-> state, content |-> content]
FileStates == {"missing", "ok", "unparseable"}
TokEnvStates == {"unset", "ok", "unparseable"}

\* what a refresh delivers: usually a new access token, sometimes a new refresh
\* token and sometimes an expiry date
NewTokens ==
    {Tokens(a, r, x) : a \in {Absent, "access-1", "access-2"}, r \in {Absent, "refresh-1"},
                       x \in {0, 9000}}
NowChoices == {1000}
HourMs == 3600 * 1000

\* index.ts:188-204: the first candidate file that exists and parses, else 0
firstLoadable(files) ==
    IF \E k \in 1 .. Len(files) : files[k].state = "ok"
    THEN CHOOSE k \in 1 .. Len(files) :
            /\ files[k].state = "ok"
            /\ \A j \in 1 .. k - 1 : files[j].state # "ok"
    ELSE 0

updatedTokensReplaces(old, new, now) ==
    [access_token |-> new.access_token,
     refresh_token |-> new.refresh_token,
     expiry_date |-> IF new.expiry_date # 0 THEN new.expiry_date ELSE now + HourMs]

updatedTokensKeepsDelivered(old, new, now) ==
    [access_token |->
        IF new.access_token # Absent THEN new.access_token ELSE old.access_token,
     refresh_token |->
        IF new.access_token # Absent THEN new.refresh_token ELSE old.refresh_token,
     expiry_date |-> new.expiry_date]

\* index.ts:249-253: { ...tokens, ...newTokens, expiry_date: ... }
updatedTokens(old, new, now) ==
    [access_token |->
        IF new.access_token # Absent THEN new.access_token ELSE old.access_token,
     refresh_token |->
        IF new.refresh_token # Absent THEN new.refresh_token ELSE old.refresh_token,
     expiry_date |-> IF new.expiry_date # 0 THEN new.expiry_date ELSE now + HourMs]

\* index.ts:258: if (tokensPath)
savesToFile(path) == path # 0

TokIdle ==
    /\ tokEnv = "unset"
    /\ tokFiles = << >>
    /\ tokens = NoTokens
    /\ tokensPath = 0
    /\ tokPc = "idle"
    /\ tokLog = << >>

InitTokCall ==
    /\ tokEnv \in TokEnvStates
    /\ tokFiles \in {<<TokenFile(a, FileTokens(1)), TokenFile(b, FileTokens(2))>> :
                        a \in FileStates, b \in FileStates}
    /\ tokens = NoTokens
    /\ tokensPath = 0
    /\ tokPc = "load"
    /\ tokLog = << >>

\* index.ts:171-211, 236: loadTokens returns the tokens and their path, or throws
LoadTokens ==
    /\ tokPc = "load"
    /\ IF tokEnv = "ok"
       THEN tokens' = EnvTokens /\ tokensPath' = 0 /\ tokPc' = "ready"
       ELSE IF firstLoadable(tokFiles) # 0
       THEN /\ tokens' = tokFiles[firstLoadable(tokFiles)].content
            /\ tokensPath' = firstLoadable(tokFiles)
            /\ tokPc' = "ready"
       ELSE tokens' = tokens /\ tokensPath' = 0 /\ tokPc' = "failed"
    /\ UNCHANGED <<tokEnv, tokFiles, tokLog>>

Refreshed(new, now, write) ==
    [newTokens |-> new, before |-> tokens, now |-> now, write |-> write,
     raised |-> FALSE]

\* index.ts:247-262: a refresh event with a token file; the write succeeds
RefreshSaved(new, now) ==
    /\ tokPc = "ready"
    /\ Len(tokLog) < MaxRefreshes
    /\ savesToFile(tokensPath)
    /\ tokens' = updatedTokens(tokens, new, now)
    /\ tokFiles' = [tokFiles EXCEPT
                      ![tokensPath] = TokenFile("ok", updatedTokens(tokens, new, now))]
    /\ tokLog' = Append(tokLog, Refreshed(new, now, "saved"))
    /\ UNCHANGED <<tokEnv, tokensPath, tokPc>>

\* index.ts:247-267: a refresh event with a token file; writeFileSync throws
RefreshSaveFails(new, now) ==
    /\ tokPc = "ready"
    /\ Len(tokLog) < MaxRefreshes
    /\ savesToFile(tokensPath)
    /\ tokens' = updatedTokens(tokens, new, now)
    /\ tokLog' = Append(tokLog, Refreshed(new, now, "failed"))
    /\ UNCHANGED <<tokEnv, tokFiles, tokensPath, tokPc>>

\* index.ts:247-256, 268-270: a refresh event without a token file
RefreshInMemory(new, now) ==
    /\ tokPc = "ready"
    /\ Len(tokLog) < MaxRefreshes
    /\ ~savesToFile(tokensPath)
    /\ tokens' = updatedTokens(tokens, new, now)
    /\ tokLog' = Append(tokLog, Refreshed(new, now, "none"))
    /\ UNCHANGED <<tokEnv, tokFiles, tokensPath, tokPc>>

(***************************************************************************)
(* Computed analytics over two periods: compare_periods,                   *)
(* detect_content_decay, diff_keywords (index.ts:366-389).                 *)
(***************************************************************************)
Keys == {"a", "b"}
ClickChoices == {0, 5, 10, 40, 100}
\* a dataset maps the dimension keys of its rows to their clicks
Datasets == UNION {[K -> ClickChoices] : K \in SUBSET Keys}
NoDataset == [k \in {} |-> 0]

\* the clicks of a key, zero when the period has no row for it
clicksIn(d, k) == IF k \in DOMAIN d THEN d[k] ELSE 0

\* percent change in tenths of a percent, or the sentinel
NoPercent == [defined |-> FALSE, tenths |-> 0]

percentChangeZeroOnZero(delta, base) ==
    IF base = 0 THEN [defined |-> TRUE, tenths |-> 0]
    ELSE [defined |-> TRUE, tenths |-> (delta * 1000) \div base]

percentChange(delta, base) ==
    IF base = 0 THEN NoPercent
    ELSE [defined |-> TRUE, tenths |-> (delta * 1000) \div base]

comparePeriods(e, l) ==
    [k \in DOMAIN e \cup DOMAIN l |->
        [earlier |-> clicksIn(e, k),
         later |-> clicksIn(l, k),
         delta |-> clicksIn(l, k) - clicksIn(e, k),
         percent |-> percentChange(clicksIn(l, k) - clicksIn(e, k), clicksIn(e, k))]]

isDecayAnyChange(loss) == loss # 0

\* a gain is not a decay signal
isDecay(loss) == loss >= 0

DecaySignal(e, l, k) ==
    [page |-> k,
     earlier |-> clicksIn(e, k),
     recent |-> clicksIn(l, k),
     loss |-> clicksIn(e, k) - clicksIn(l, k),
     percent |-> percentChange(clicksIn(e, k) - clicksIn(l, k), clicksIn(e, k))]

decaySignals(e, l) ==
    {DecaySignal(e, l, k) : k \in {p \in DOMAIN e \cup DOMAIN l :
                                      isDecay(clicksIn(e, p) - clicksIn(l, p))}}

\* the orders in which a sort by descending loss can leave the signals
sortedByLoss(S) ==
    {q \in [1 .. Cardinality(S) -> S] :
        /\ \A i, j \in 1 .. Cardinality(S) : i # j => q[i] # q[j]
        /\ \A i \in 1 .. Cardinality(S) - 1 : q[i].loss >= q[i + 1].loss}

diffKeywordsSwapped(e, l) ==
    [new |-> DOMAIN e \ DOMAIN l, lost |-> DOMAIN l \ DOMAIN e]

diffKeywords(e, l) ==
    [new |-> DOMAIN l \ DOMAIN e, lost |-> DOMAIN e \ DOMAIN l]

NoKeywordDiff == [new |-> {}, lost |-> {}]

CalcIdle ==
    /\ earlier = NoDataset
    /\ later = NoDataset
    /\ calcOp = "idle"
    /\ comparison = NoDataset
    /\ decay = << >>
    /\ keywordDiff = NoKeywordDiff

InitCalcCall ==
    /\ earlier \in Datasets
    /\ later \in Datasets
    /\ calcOp = "none"
    /\ comparison = NoDataset
    /\ decay = << >>
    /\ keywordDiff = NoKeywordDiff

ApplyComparePeriods ==
    /\ calcOp = "none"
    /\ comparison' = comparePeriods(earlier, later)
    /\ calcOp' = "compare"
    /\ UNCHANGED <<earlier, later, decay, keywordDiff>>

ApplyDetectDecay ==
    /\ calcOp = "none"
    /\ decay' \in sortedByLoss(decaySignals(earlier, later))
    /\ calcOp' = "decay"
    /\ UNCHANGED <<earlier, later, comparison, keywordDiff>>

ApplyDiffKeywords ==
    /\ calcOp = "none"
    /\ keywordDiff' = diffKeywords(earlier, later)
    /\ calcOp' = "diff"
    /\ UNCHANGED <<earlier, later, comparison, decay>>

(***************************************************************************)
(* Cannibalization detection: detect_cannibalization (index.ts:378-383).   *)
(***************************************************************************)
Queries == {"q1", "q2"}
Pages == {"p1", "p2"}
\* the positions of the rows of one query and page
PositionLists == {<< >>, <<3>>, <<9>>, <<3, 9>>}

RECURSIVE sumOf(_)
sumOf(ps) == IF ps = << >> THEN 0 ELSE Head(ps) + sumOf(Tail(ps))

\* the pages that contributed rows for a query
contributingPages(rows, q) == {p \in Pages : rows[q][p] # << >>}

\* twice the average position of a page's rows
avgPosition2(ps) == (2 * sumOf(ps)) \div Len(ps)

RECURSIVE sumOver(_, _, _)
sumOver(rows, q, P) ==
    IF P = {} THEN 0
    ELSE LET p == CHOOSE x \in P : TRUE
         IN  avgPosition2(rows[q][p]) + sumOver(rows, q, P \ {p})

RECURSIVE sumSquaresOver(_, _, _)
sumSquaresOver(rows, q, P) ==
    IF P = {} THEN 0
    ELSE LET p == CHOOSE x \in P : TRUE
         IN  avgPosition2(rows[q][p]) * avgPosition2(rows[q][p])
                + sumSquaresOver(rows, q, P \ {p})

\* the population variance of the pages' average positions, times 4 n^2
\* for n pages: n * sum(a^2) - sum(a)^2 with a twice the average
positionVariance(rows, q) ==
    LET P == contributingPages(rows, q)
    IN  Cardinality(P) * sumSquaresOver(rows, q, P)
           - sumOver(rows, q, P) * sumOver(rows, q, P)

qualifiesWithOnePage(n) == n >= 1

\* a group qualifies only when it has at least 2 distinct pages
qualifies(n) == n >= 2

detectCannibalization(rows) ==
    [q \in {x \in Queries : qualifies(Cardinality(contributingPages(rows, x)))} |->
        [pages |-> contributingPages(rows, q),
         variance |-> positionVariance(rows, q)]]

CannIdle ==
    /\ cannRows = [q \in Queries |-> [p \in Pages |-> << >>]]
    /\ cannPc = "idle"
    /\ cannGroups = NoDataset

InitCannCall ==
    /\ cannRows \in [Queries -> [Pages -> PositionLists]]
    /\ cannPc = "ready"
    /\ cannGroups = NoDataset

ApplyDetectCannibalization ==
    /\ cannPc = "ready"
    /\ cannGroups' = detectCannibalization(cannRows)
    /\ cannPc' = "done"
    /\ UNCHANGED cannRows

(***************************************************************************)
(* Batch inspection: batch_inspect (index.ts:390-395).                     *)
(***************************************************************************)
\* index.ts:392: 'max 100 URLs'
BatchLimit == 100
BatchSizes == {1, 2, BatchLimit, BatchLimit + 1, BatchLimit + 2}

acceptsAnyBatch(n) == TRUE

\* a batch above the maximum size is rejected
acceptsBatch(n) == n <= BatchLimit

BatchIdle ==
    /\ batchSize = 0
    /\ batchPc = "idle"
    /\ inspected = 0
    /\ batchResult = "none"

InitBatchCall ==
    /\ batchSize \in BatchSizes
    /\ batchPc = "start"
    /\ inspected = 0
    /\ batchResult = "none"

\* the batch is over the limit: the call fails before any inspection
RejectBatch ==
    /\ batchPc = "start"
    /\ ~acceptsBatch(batchSize)
    /\ batchResult' = "rejected"
    /\ batchPc' = "done"
    /\ UNCHANGED <<batchSize, inspected>>

\* the next URL is inspected (one per second, in input order)
InspectNext ==
    /\ \/ batchPc = "start" /\ acceptsBatch(batchSize)
       \/ batchPc = "inspecting"
    /\ inspected < batchSize
    /\ inspected' = inspected + 1
    /\ batchPc' = "inspecting"
    /\ UNCHANGED <<batchSize, batchResult>>

\* every URL has its outcome
BatchReturns ==
    /\ batchPc = "inspecting"
    /\ inspected = batchSize
    /\ batchResult' = "outcomes"
    /\ batchPc' = "done"
    /\ UNCHANGED <<batchSize, inspected>>

(***************************************************************************)
(* formatAuthError (unnamed/part_000:11-120).                              *)
(***************************************************************************)
\* an error with the GSCError subclasses on its prototype chain
GSCErr(classes, name, message, code, statusCode) ==
    [classes |-> classes, name |-> name, message |-> message, code |-> code,
     statusCode |-> statusCode]

ErrorClasses == {"GSCPermissionError", "GSCAuthError", "GSCQuotaError"}

FmtErrors ==
    {GSCErr(c, n, "User does not have sufficient permission", code, st) :
        c \in SUBSET ErrorClasses, n \in {"", "GSCError"},
        code \in {Undef, Str}, st \in {Undef, Num(403)}}

AuthContexts ==
    [mode : {"service_account", "oauth2"},
     identity : {"bot@project.iam.gserviceaccount.com", "user@example.com"}]

SiteArgs == {"", "https://example.com/"}

\* the object given to JSON.stringify: keys are its properties with a defined
\* value, the other fields hold the values of those properties
Message(keys, error, siteUrl_, authMode, solution, steps, originalError, message,
        code, statusCode) ==
    [keys |-> keys, error |-> error, siteUrl |-> siteUrl_, authMode |-> authMode,
     solution |-> solution, steps |-> steps, originalError |-> originalError,
     message |-> message, code |-> code, statusCode |-> statusCode]

NoMessage == Message({}, "", "", "", "", << >>, "", "", Undef, Undef)

\* a || b for strings
orElse(a, b) == IF a = "" THEN b ELSE a

PermissionKeys == {"error", "siteUrl", "authMode", "solution", "steps", "originalError"}
AuthKeys == {"error", "authMode", "solution", "steps", "originalError"}
QuotaKeys == {"error", "solution", "steps", "originalError"}

\* part_000:18-33
permissionOAuth2(error, site) ==
    Message(PermissionKeys, "Permission denied for this Search Console property",
            orElse(site, error.message), "oauth2",
            "The OAuth2 user does not have access to this property",
            <<"1. Verify the authorized user has access to this property in Search Console",
              "2. Check if the siteUrl is correct",
              "3. Re-authorize if needed to get fresh tokens">>,
            error.message, "", Undef, Undef)

\* part_000:35-52
permissionServiceAccount(error, auth, site) ==
    Message(PermissionKeys, "Permission denied for this Search Console property",
            orElse(site, error.message), "service_account",
            "Please add the service account as a user in Search Console: " \o auth.identity,
            <<"1. Go to Google Search Console (search.google.com/search-console)",
              "2. Select the property",
              "3. Navigate to Settings > Users and permissions",
              "4. Add " \o auth.identity \o " with Owner or Full access",
              "5. Try the query again">>,
            error.message, "", Undef, Undef)

\* part_000:58-72
authOAuth2(error) ==
    Message(AuthKeys, "OAuth2 authentication failed", "", "oauth2",
            "Check your OAuth2 credentials and tokens",
            <<"1. Verify GOOGLE_CLIENT_ID and GOOGLE_CLIENT_SECRET are set",
              "2. Check tokens.json or GOOGLE_OAUTH2_TOKENS contains valid tokens",
              "3. Re-authorize if tokens have expired or been revoked">>,
            error.message, "", Undef, Undef)

\* part_000:74-88
authServiceAccount(error) ==
    Message(AuthKeys, "Service Account authentication failed", "", "service_account",
            "Check your service account credentials",
            <<"1. Verify GOOGLE_APPLICATION_CREDENTIALS, GOOGLE_CREDENTIALS, or GOOGLE_CREDENTIALS_PATH is set",
              "2. Ensure the JSON file contains a valid service account key",
              "3. Check the service account has not been deleted or disabled">>,
            error.message, "", Undef, Undef)

\* part_000:93-106
quotaMessage(error) ==
    Message(QuotaKeys, "API quota exceeded", "", "",
            "Wait a moment and retry, or reduce request frequency",
            <<"1. Wait 60 seconds before retrying",
              "2. Reduce the frequency of API calls",
              "3. Check your Google Cloud Console quota limits">>,
            error.message, "", Undef, Undef)

\* part_000:110-119: JSON.stringify leaves out the properties that are undefined
genericMessage(error) ==
    Message({"error", "message"}
               \cup (IF error.code = Undef THEN {} ELSE {"code"})
               \cup (IF error.statusCode = Undef THEN {} ELSE {"statusCode"}),
            orElse(error.name, "GSCError"), "", "", "", << >>, "", error.message,
            error.code, error.statusCode)

\* error instanceof C, for the subclasses of GSCError
isInstance(error, c) == c \in error.classes

formatAuthErrorQuotaFirst(error, auth, site) ==
    IF isInstance(error, "GSCQuotaError")
        THEN quotaMessage(error)
    ELSE IF isInstance(error, "GSCAuthError")
        THEN IF auth.mode = "oauth2" THEN authOAuth2(error)
             ELSE authServiceAccount(error)
    ELSE IF isInstance(error, "GSCPermissionError")
        THEN IF auth.mode = "oauth2" THEN permissionOAuth2(error, site)
             ELSE permissionServiceAccount(error, auth, site)
    ELSE genericMessage(error)

\* part_000:11-120
formatAuthError(error, auth, site) ==
    IF isInstance(error, "GSCPermissionError")
        THEN IF auth.mode = "oauth2" THEN permissionOAuth2(error, site)
             ELSE permissionServiceAccount(error, auth, site)
    ELSE IF isInstance(error, "GSCAuthError")
        THEN IF auth.mode = "oauth2" THEN authOAuth2(error)
             ELSE authServiceAccount(error)
    ELSE IF isInstance(error, "GSCQuotaError")
        THEN quotaMessage(error)
    ELSE genericMessage(error)

FmtIdle ==
    /\ fmtError = GSCErr({}, "", "", Undef, Undef)
    /\ fmtAuth = [mode |-> "", identity |-> ""]
    /\ fmtSite = ""
    /\ fmtPc = "idle"
    /\ fmtResult = NoMessage

\* formatAuthError(error, authContext, siteUrl) is called
InitFmtCall ==
    /\ fmtError \in FmtErrors
    /\ fmtAuth \in AuthContexts
    /\ fmtSite \in SiteArgs
    /\ fmtPc = "call"
    /\ fmtResult = NoMessage

\* part_000:11-120: the message is returned
ApplyFormatAuthError ==
    /\ fmtPc = "call"
    /\ fmtResult' = formatAuthError(fmtError, fmtAuth, fmtSite)
    /\ fmtPc' = "done"
    /\ UNCHANGED <<fmtError, fmtAuth, fmtSite>>

(***************************************************************************)
(* normalizeUrl (service.ts:47-55) applied to its own result.              *)
(***************************************************************************)
Hosts == {"example.com", "Example.COM", "www.example.com"}
Ports == {<< >>, <<":8443">>}
Paths == {<< >>, <<"/">>, <<"/blog/">>}

\* domain-level identifiers, URLs that parse, and strings that do not parse
\* as a URL: a bare host, with or without a path
Identifiers ==
    {<<p, h>> \o port \o path :
        p \in {"sc-domain:", "https://", "http://"}, h \in Hosts,
        port \in Ports, path \in Paths}
    \cup {<<h>> \o path : h \in Hosts, path \in Paths}

NormIdle ==
    /\ normInput = << >>
    /\ normOnce = << >>
    /\ normTwice = << >>
    /\ normPc = -1

InitNormCall ==
    /\ normInput \in Identifiers
    /\ normOnce = << >>
    /\ normTwice = << >>
    /\ normPc = 0

\* service.ts:47-55: normalizeUrl(x)
NormalizeOnce ==
    /\ normPc = 0
    /\ normOnce' = normalizeUrl(normInput)
    /\ normPc' = 1
    /\ UNCHANGED <<normInput, normTwice>>

\* service.ts:47-55: normalizeUrl(normalizeUrl(x))
NormalizeAgain ==
    /\ normPc = 1
    /\ normTwice' = normalizeUrl(normOnce)
    /\ normPc' = 2
    /\ UNCHANGED <<normInput, normOnce>>

(***************************************************************************)
(* Specifications.                                                         *)
(***************************************************************************)
InitPage == InitPageCall /\ RetryIdle /\ RateIdle /\ AggIdle /\ ToolIdle /\ SvcIdle /\ CredIdle /\ TokIdle /\ CalcIdle /\ CannIdle /\ BatchIdle /\ FmtIdle /\ NormIdle

NextPage ==
    \/ FetchPage /\ UNCHANGED notPageVars
    \/ LoopEnds /\ UNCHANGED notPageVars
    \/ \E r \in Responses(limit) : PrimaryResolves(r) /\ UNCHANGED notPageVars
    \/ \E e \in PageErrors : PrimaryRejectsFallback(e) /\ UNCHANGED notPageVars
    \/ \E e \in PageErrors : PrimaryRejectsThrow(e) /\ UNCHANGED notPageVars
    \/ \E r \in Responses(limit) : FallbackResolves(r) /\ UNCHANGED notPageVars
    \/ \E e \in PageErrors : FallbackRejects(e) /\ UNCHANGED notPageVars

SpecPage == InitPage /\ [][NextPage]_vars

InitRetry == InitRetryCall /\ PageIdle /\ RateIdle /\ AggIdle /\ ToolIdle /\ SvcIdle /\ CredIdle /\ TokIdle /\ CalcIdle /\ CannIdle /\ BatchIdle /\ FmtIdle /\ NormIdle

NextRetry ==
    \/ \E v \in Values : FnResolves(v) /\ UNCHANGED notRetryVars
    \/ \E e \in Errors : FnRejectsThrow(e) /\ UNCHANGED notRetryVars
    \/ \E e \in Errors, j \in 0 .. RandSteps - 1 : FnRejectsSleep(e, j) /\ UNCHANGED notRetryVars
    \/ SleepElapses /\ UNCHANGED notRetryVars
    \/ LoopFallsThrough /\ UNCHANGED notRetryVars

SpecRetry == InitRetry /\ [][NextRetry]_vars

InitRate == InitRateCall /\ RetryIdle /\ PageIdle /\ AggIdle /\ ToolIdle /\ SvcIdle /\ CredIdle /\ TokIdle /\ CalcIdle /\ CannIdle /\ BatchIdle /\ FmtIdle /\ NormIdle

NextRate ==
    \/ RateSleep /\ UNCHANGED notRateVars
    \/ OpStarts /\ UNCHANGED notRateVars
    \/ \E v \in Values : OpResolves(v) /\ UNCHANGED notRateVars
    \/ \E e \in RateErrors : OpRejects(e) /\ UNCHANGED notRateVars
    \/ RateReturns /\ UNCHANGED notRateVars

SpecRate == InitRate /\ [][NextRate]_vars

InitAgg == InitAggCall /\ RetryIdle /\ PageIdle /\ RateIdle /\ ToolIdle /\ SvcIdle /\ CredIdle /\ TokIdle /\ CalcIdle /\ CannIdle /\ BatchIdle /\ FmtIdle /\ NormIdle

NextAgg ==
    \/ IssueAll /\ UNCHANGED notAggVars
    \/ \E s \in Sections, v \in Values : SectionFulfils(s, v) /\ UNCHANGED notAggVars
    \/ \E s \in Sections, e \in AggErrors : SectionRejects(s, e) /\ UNCHANGED notAggVars
    \/ BuildReport /\ UNCHANGED notAggVars

SpecAgg == InitAgg /\ [][NextAgg]_vars

InitTool == InitToolCall /\ RetryIdle /\ PageIdle /\ RateIdle /\ AggIdle /\ SvcIdle /\ CredIdle /\ TokIdle /\ CalcIdle /\ CannIdle /\ BatchIdle /\ FmtIdle /\ NormIdle

NextTool ==
    \/ ArgumentsRequired /\ UNCHANGED notToolVars
    \/ ParseThrows /\ UNCHANGED notToolVars
    \/ CallService /\ UNCHANGED notToolVars
    \/ \E v \in Values : ServiceResolves(v) /\ UNCHANGED notToolVars
    \/ \E e \in ServiceErrors : ServiceRejects(e) /\ UNCHANGED notToolVars
    \/ \E v \in Values : OpaqueResolves(v) /\ UNCHANGED notToolVars
    \/ \E e \in OpaqueErrors : OpaqueThrows(e) /\ UNCHANGED notToolVars
    \/ UnknownTool /\ UNCHANGED notToolVars

SpecTool == InitTool /\ [][NextTool]_vars

InitSvc == InitSvcCall /\ RetryIdle /\ PageIdle /\ RateIdle /\ AggIdle /\ ToolIdle /\ CredIdle /\ TokIdle /\ CalcIdle /\ CannIdle /\ BatchIdle /\ FmtIdle /\ NormIdle

NextSvc ==
    \/ SvcOperation /\ UNCHANGED notSvcVars
    \/ \E v \in Values : SvcResolves(v) /\ UNCHANGED notSvcVars
    \/ \E e \in SvcErrors : SvcOperationRejectsFallback(e) /\ UNCHANGED notSvcVars
    \/ \E e \in SvcErrors : SvcOperationRejectsThrow(e) /\ UNCHANGED notSvcVars
    \/ \E e \in SvcErrors : SvcFallbackRejects(e) /\ UNCHANGED notSvcVars

SpecSvc == InitSvc /\ [][NextSvc]_vars

InitCred ==
    InitCredCall /\ RetryIdle /\ PageIdle /\ RateIdle /\ AggIdle /\ ToolIdle /\ SvcIdle /\ TokIdle /\ CalcIdle /\ CannIdle /\ BatchIdle /\ FmtIdle /\ NormIdle

NextCred ==
    \/ TryCredentialsJson /\ UNCHANGED notCredVars
    \/ TryCredentialsPath /\ UNCHANGED notCredVars
    \/ TryApplicationCredentials /\ UNCHANGED notCredVars
    \/ CredentialsNotFound /\ UNCHANGED notCredVars

SpecCred == InitCred /\ [][NextCred]_vars

InitTok ==
    InitTokCall /\ RetryIdle /\ PageIdle /\ RateIdle /\ AggIdle /\ ToolIdle /\ SvcIdle /\ CredIdle /\ CalcIdle /\ CannIdle /\ BatchIdle /\ FmtIdle /\ NormIdle

NextTok ==
    \/ LoadTokens /\ UNCHANGED notTokVars
    \/ \E n \in NewTokens, t \in NowChoices : RefreshSaved(n, t) /\ UNCHANGED notTokVars
    \/ \E n \in NewTokens, t \in NowChoices : RefreshSaveFails(n, t) /\ UNCHANGED notTokVars
    \/ \E n \in NewTokens, t \in NowChoices : RefreshInMemory(n, t) /\ UNCHANGED notTokVars

SpecTok == InitTok /\ [][NextTok]_vars

InitCalc ==
    /\ InitCalcCall
    /\ RetryIdle /\ PageIdle /\ RateIdle /\ AggIdle /\ ToolIdle /\ SvcIdle /\ CredIdle /\ TokIdle
    /\ CannIdle /\ BatchIdle /\ FmtIdle /\ NormIdle

NextCalc ==
    \/ ApplyComparePeriods /\ UNCHANGED notCalcVars
    \/ ApplyDetectDecay /\ UNCHANGED notCalcVars
    \/ ApplyDiffKeywords /\ UNCHANGED notCalcVars

SpecCalc == InitCalc /\ [][NextCalc]_vars

InitCann ==
    /\ InitCannCall
    /\ RetryIdle /\ PageIdle /\ RateIdle /\ AggIdle /\ ToolIdle /\ SvcIdle /\ CredIdle /\ TokIdle
    /\ CalcIdle /\ BatchIdle /\ FmtIdle /\ NormIdle

NextCann == ApplyDetectCannibalization /\ UNCHANGED notCannVars

SpecCann == InitCann /\ [][NextCann]_vars

InitBatch ==
    /\ InitBatchCall
    /\ RetryIdle /\ PageIdle /\ RateIdle /\ AggIdle /\ ToolIdle /\ SvcIdle /\ CredIdle /\ TokIdle
    /\ CalcIdle /\ CannIdle /\ FmtIdle /\ NormIdle

NextBatch ==
    \/ RejectBatch /\ UNCHANGED notBatchVars
    \/ InspectNext /\ UNCHANGED notBatchVars
    \/ BatchReturns /\ UNCHANGED notBatchVars

SpecBatch == InitBatch /\ [][NextBatch]_vars

InitFmt ==
    /\ InitFmtCall
    /\ RetryIdle /\ PageIdle /\ RateIdle /\ AggIdle /\ ToolIdle /\ SvcIdle /\ CredIdle /\ TokIdle /\ CalcIdle /\ CannIdle /\ BatchIdle /\ NormIdle

NextFmt ==
    \/ ApplyFormatAuthError /\ UNCHANGED notFmtVars

SpecFmt == InitFmt /\ [][NextFmt]_vars

InitNorm ==
    /\ InitNormCall
    /\ RetryIdle /\ PageIdle /\ RateIdle /\ AggIdle /\ ToolIdle /\ SvcIdle /\ CredIdle /\ TokIdle /\ CalcIdle /\ CannIdle /\ BatchIdle /\ FmtIdle

NextNorm ==
    \/ NormalizeOnce /\ UNCHANGED notNormVars
    \/ NormalizeAgain /\ UNCHANGED notNormVars

SpecNorm == InitNorm /\ [][NextNorm]_vars

(***************************************************************************)
(* Claims about withRetry, checked under SpecRetry.                        *)
(***************************************************************************)
\* the status the claims call retryable: 429 or >= 500
StatusIs429Or5xx(e) ==
    LET s == getStatusCode(e)
    IN  s.t = "number" /\ (s.n = 429 \/ s.n >= 500)

Failed(i) == calls[i].kind = "err"

\* the pure-exponential value baseDelay * 2^att, in units of 1/DelayScale ms
PureExponential(att) == baseDelay * Pow2(att) * DelayScale

\* C1: fn is invoked again only after a failure whose status is 429 or >= 500;
\* after any other failure, at whichever attempt, there is no further
\* invocation and no backoff wait, and withRetry throws that very error; a
\* first failure with status 404 leaves exactly one invocation.
C1_NonRetryableFailsFast ==
    /\ \A i \in 2 .. Len(calls) : Failed(i - 1) /\ StatusIs429Or5xx(calls[i - 1].err)
    /\ \A i \in 1 .. Len(calls) :
         (Failed(i) /\ ~StatusIs429Or5xx(calls[i].err)) =>
            /\ i = Len(calls)
            /\ Len(delays) = i - 1
            /\ rpc = "done"
            /\ result.kind = "throw" /\ result.err = calls[i].err /\ result.id = i
    /\ (Len(calls) >= 1 /\ Failed(1) /\ getStatusCode(calls[1].err) = Num(404))
          => Len(calls) = 1

\* C1 witness: after two retried failures a third attempt fails with an error
\* that has no numeric status, and withRetry has thrown it.
C1_Witness ==
    /\ rpc = "done"
    /\ Len(calls) = 3
    /\ Failed(3) /\ calls[3].err = EPlain
    /\ result.kind = "throw"

\* C2: fn is invoked at most maxRetries + 1 times (4 times with the defaults),
\* and when the last permitted attempt fails with a retryable status the caller
\* gets the error thrown by that attempt itself.
C2_AttemptBoundAndLastError ==
    /\ Len(calls) <= IF maxRetries + 1 >= 0 THEN maxRetries + 1 ELSE 0
    /\ (opts.maxRetries = Undef) => Len(calls) <= 4
    /\ (/\ rpc = "done"
        /\ Len(calls) >= 1
        /\ Len(calls) = maxRetries + 1
        /\ Failed(Len(calls))
        /\ StatusIs429Or5xx(calls[Len(calls)].err))
          => /\ result.kind = "throw"
             /\ result.err = calls[Len(calls)].err
             /\ result.id = Len(calls)

\* C2 witness: with the default options the fourth attempt fails with a
\* retryable status and withRetry has settled.
C2_Witness ==
    /\ rpc = "done"
    /\ opts.maxRetries = Undef
    /\ Len(calls) = 4
    /\ Failed(4) /\ StatusIs429Or5xx(calls[4].err)
    /\ calls[1].err # calls[4].err

Fails503Then(k) ==
    /\ Len(calls) = k + 1
    /\ \A i \in 1 .. k : Failed(i) /\ getStatusCode(calls[i].err) = Num(503)
    /\ calls[k + 1].kind = "ok"

\* C3: when fn fails with status 503 on attempts 1..k and succeeds on attempt
\* k+1, withRetry returns the success value, exactly k sleeps happened, sleep i
\* lies between attempt i and attempt i+1, and sleep i lasts at least
\* baseDelay * 2^(i-1) * 0.5.
C3_Succeeds503AfterKDelays ==
    \A k \in 0 .. Len(calls) :
        (rpc = "done" /\ k < Len(calls) /\ Fails503Then(k)) =>
            /\ result.kind = "return" /\ result.val = calls[k + 1].val
            /\ Len(delays) = k
            /\ \A i \in 1 .. k :
                 /\ delays[i].afterCalls = i
                 /\ calls[i + 1].sleeps = i
                 /\ 2 * delays[i].ms >= baseDelay * Pow2(i - 1) * DelayScale

\* C3 witness: three 503 failures, then success on the fourth attempt.
C3_Witness ==
    /\ rpc = "done"
    /\ Fails503Then(3)
    /\ result.kind = "return"

\* C4 as stated: every backoff wait is at least half the pure-exponential
\* value baseDelay * 2^attempt and stays strictly below that value.
C4_DelayBelowPureExponential ==
    \A i \in 1 .. Len(delays) :
        /\ 2 * delays[i].ms >= PureExponential(delays[i].attempt)
        /\ delays[i].ms < PureExponential(delays[i].attempt)

\* C4 amended: the jitter factor lies in [0.5, 1.5): every backoff wait is at
\* least 50% and less than 150% of baseDelay * 2^attempt (baseDelay > 0).
C4_DelayWithinHalfToOneAndHalf ==
    \A i \in 1 .. Len(delays) :
        /\ delays[i].attempt = i - 1
        /\ 2 * delays[i].ms >= PureExponential(delays[i].attempt)
        /\ 2 * delays[i].ms < 3 * PureExponential(delays[i].attempt)

\* C4 witness: a backoff wait longer than the pure-exponential value.
C4_Witness ==
    \E i \in 1 .. Len(delays) :
        /\ i >= 2
        /\ delays[i].ms > PureExponential(delays[i].attempt)

(***************************************************************************)
(* Claims about paginateSearchAnalytics, checked under SpecPage.           *)
(***************************************************************************)
\* the rows answered to page fetch i (none when the rows field is missing)
AnsweredRows(i) == IF fetches[i].resp.present THEN fetches[i].resp.n ELSE 0

\* the concatenation of the answers to the page fetches 1..k, in that order
RECURSIVE ConcatAnswers(_)
ConcatAnswers(k) ==
    IF k = 0 THEN << >>
    ELSE IF AnsweredRows(k) = 0 THEN ConcatAnswers(k - 1)
    ELSE Append(ConcatAnswers(k - 1),
                [n |-> fetches[k].resp.n, tag |-> fetches[k].resp.tag])

\* the sum of the limits of the page fetches before fetch i
RECURSIVE RequestedBefore(_)
RequestedBefore(i) ==
    IF i <= 1 THEN 0 ELSE fetches[i - 1].limit + RequestedBefore(i - 1)

Returned == ppc = "done" /\ pageResult.kind = "return"

CeilDiv(a, b) == (a + b - 1) \div b

\* ceil(maxRows / min(pageSize, 25000)) of the caller's options
ClaimedFetchBound ==
    CeilDiv(Nullish(pageOpts.maxRows, 100000),
            Min(Nullish(pageOpts.pageSize, 25000), 25000))

\* C5 as stated: whatever the page responses are, the returned list has at
\* most maxRows rows.
C5_ReturnsAtMostMaxRows ==
    Returned => TotalRows(pageResult.rows) <= maxRows

\* no answer held more rows than the rowLimit of its request
AnswersWithinLimit ==
    \A i \in 1 .. Len(fetches) : AnsweredRows(i) <= fetches[i].limit

\* C5 amended: when no page response holds more rows than the rowLimit
\* requested for it, the rows accumulated and returned are at most maxRows.
C5_AtMostMaxRowsWhenAnswersWithinLimit ==
    AnswersWithinLimit =>
        /\ TotalRows(allRows) <= maxRows
        /\ Returned => TotalRows(pageResult.rows) <= maxRows

\* C5 witness: a call for more than 25,000 rows returned exactly maxRows rows
\* from several pages, none longer than requested.
C5_Witness ==
    /\ Returned
    /\ AnswersWithinLimit
    /\ maxRows > 25000
    /\ Len(fetches) >= 3
    /\ TotalRows(pageResult.rows) = maxRows

\* a measure every step of the paginator decreases
PageRank ==
    CASE ppc = "primary" -> 3
      [] ppc = "fallback" -> 2
      [] ppc = "loop" -> 1
      [] OTHER -> 0

PageMeasure == 3 * (ClaimedFetchBound - Len(fetches)) + PageRank

C7_ShortPageStops ==
    \A i \in 1 .. Len(fetches) :
        (fetches[i].state = "ok" /\ AnsweredRows(i) < fetches[i].limit) =>
            /\ i = Len(fetches)
            /\ \A j \in 1 .. Len(requests) : requests[j].fetch <= i
            /\ Returned
            /\ pageResult.rows = ConcatAnswers(i)

\* C7 witness: the second page came without rows field, and the call returned
\* the first page although maxRows was not reached.
C7_Witness ==
    /\ Returned
    /\ Len(fetches) = 2
    /\ ~fetches[2].resp.present
    /\ pageResult.rows # << >>
    /\ TotalRows(pageResult.rows) < maxRows

\* C8: every remote request carries a numeric rowLimit of at most 25,000 and at
\* most maxRows minus the rows requested by the earlier pages, and the startRow
\* of its page, whatever pageSize, rowLimit and startRow the caller passed.
C8_RowLimitCapped ==
    \A j \in 1 .. Len(requests) :
        LET r == requests[j]
        IN  /\ r.rowLimit.t = "number"
            /\ r.rowLimit.n <= 25000
            /\ r.rowLimit.n <= maxRows - RequestedBefore(r.fetch)
            /\ r.rowLimit.n = fetches[r.fetch].limit
            /\ r.startRow = Num(fetches[r.fetch].startRow)

\* C8 witness: a caller body with rowLimit 50000 and a pageSize above 25000;
\* the second page of the call has been requested.
C8_Witness ==
    /\ body.rowLimit = Num(50000)
    /\ pageOpts.pageSize = Num(30000)
    /\ maxRows > 25000
    /\ Len(fetches) = 2
    /\ \E j \in 1 .. Len(requests) : requests[j].via = "fallback"

RequestsOf(i) == {j \in 1 .. Len(requests) : requests[j].fetch = i}

\* C10: a page fetch that fails with status 429 or >= 500 has been retried
\* before the pagination call fails with that error, and a page fetch whose
\* primary query fails with a permission error is repeated once for the
\* domain-level identifier.
C10_PageFetchRetriedAndFallsBack ==
    /\ (ppc = "done" /\ pageResult.kind = "throw" /\ StatusIs429Or5xx(pageResult.err))
          => \E i \in 1 .. Len(fetches) :
                 /\ Cardinality({k \in 1 .. Len(fetches[i].errors) :
                        StatusIs429Or5xx(fetches[i].errors[k])}) >= 2
                 /\ Cardinality(RequestsOf(i)) >= 2
    /\ \A i \in 1 .. Len(fetches) :
         (fetches[i].errors # << >> /\ isPermissionError(fetches[i].errors[1])) =>
            /\ Cardinality({j \in RequestsOf(i) : requests[j].via = "fallback"}) = 1
            /\ \A j \in RequestsOf(i) :
                 requests[j].via = "fallback" =>
                    requests[j].siteUrl = normalizeUrl(siteUrl)

(***************************************************************************)
(* Claims about the permission fallback, checked under SpecPage: every     *)
(* page fetch is one call of withPermissionFallback by searchAnalytics.    *)
(***************************************************************************)
PrimaryRequestsOf(i) == {j \in RequestsOf(i) : requests[j].via = "primary"}
FallbackRequestsOf(i) == {j \in RequestsOf(i) : requests[j].via = "fallback"}

\* the error message contains 'permission' in some letter case
MessageHasPermission(e) ==
    e.message \in {"User does not have sufficient Permission for site", "permission"}

\* the primary query of page fetch i failed with a permission error
PrimaryDenied(i) ==
    /\ fetches[i].errors # << >>
    /\ fetches[i].errors[1].isError
    /\ MessageHasPermission(fetches[i].errors[1])

ThrownBy(i, e) ==
    /\ fetches[i].state = "err"
    /\ i = Len(fetches)
    /\ ppc = "done"
    /\ pageResult.kind = "throw"
    /\ pageResult.err = e

\* C11: per call the primary operation runs exactly once and the fallback at
\* most once, and only after the primary failed with a message containing
\* 'permission'; any other primary failure is thrown as it is with no second
\* call, and a failure of the fallback is thrown as it is with no third call.
C11_FallbackSingleShot ==
    \A i \in 1 .. Len(fetches) :
        LET errs == fetches[i].errors
        IN  /\ Cardinality(PrimaryRequestsOf(i)) = 1
            /\ Cardinality(FallbackRequestsOf(i)) <= 1
            /\ Len(errs) <= 2
            /\ FallbackRequestsOf(i) # {} =>
                  (errs # << >> /\ MessageHasPermission(errs[1]))
            /\ (errs # << >> /\ ~MessageHasPermission(errs[1])) =>
                  (FallbackRequestsOf(i) = {} /\ Len(errs) = 1 /\ ThrownBy(i, errs[1]))
            /\ Len(errs) = 2 =>
                  (Cardinality(RequestsOf(i)) = 2 /\ ThrownBy(i, errs[2]))

\* C11 witness: the primary query was denied, the fallback failed with 503 and
\* that 503 was thrown after two requests.
C11_Witness ==
    /\ Len(fetches) = 2
    /\ fetches[2].errors = <<EPerm403, E503>>
    /\ ThrownBy(2, E503)

Unparseable(url) == ~startsWithScDomain(url) /\ ~urlParses(url)

\* C12 as stated: for an identifier that does not parse as a URL a permission
\* failure is followed by no second remote call and the caller gets the error
\* of the first call.
C12_NoFallbackWhenUnparseable ==
    Unparseable(siteUrl) =>
        \A i \in 1 .. Len(fetches) :
            PrimaryDenied(i) =>
                /\ Cardinality(RequestsOf(i)) = 1
                /\ ThrownBy(i, fetches[i].errors[1])

\* C12 amended: for an identifier that does not parse as a URL the fallback
\* still runs: after a permission failure the remote operation is called a
\* second time with the identical identifier and request, and the caller gets
\* the outcome of that second call.
C12_UnparseableRetriedUnchanged ==
    siteUrl = BareHostSite =>
        \A i \in 1 .. Len(fetches) :
            PrimaryDenied(i) =>
                /\ Cardinality(FallbackRequestsOf(i)) = 1
                /\ \A j \in FallbackRequestsOf(i) :
                     /\ requests[j].siteUrl = BareHostSite
                     /\ \A k \in PrimaryRequestsOf(i) :
                          requests[j] = [requests[k] EXCEPT !.via = "fallback"]
                /\ fetches[i].state = "err" =>
                     (Len(fetches[i].errors) = 2 /\ ThrownBy(i, fetches[i].errors[2]))
                /\ fetches[i].state = "ok" =>
                     (/\ Len(fetches[i].errors) = 1
                      /\ AnsweredRows(i) > 0 =>
                            (/\ Len(allRows) > Len(fetches[i].accumulated)
                             /\ allRows[Len(fetches[i].accumulated) + 1] =
                                   [n |-> fetches[i].resp.n, tag |-> fetches[i].resp.tag]))

\* C12 witness: the bare host name was denied, the second call with the same
\* identifier answered rows and they were returned.
C12_Witness ==
    /\ siteUrl = BareHostSite
    /\ Len(fetches) = 1
    /\ PrimaryDenied(1)
    /\ fetches[1].state = "ok"
    /\ Returned
    /\ pageResult.rows # << >>

\* the domain-level form the claim gives for a caller's identifier
DomainFormOf(url) ==
    CASE url = UrlPrefixSite -> <<"sc-domain:", "example.com">>
      [] url = MixedCaseSite -> <<"sc-domain:", "example.com">>
      [] url = DomainSite -> <<"sc-domain:", "example.com">>
      [] OTHER -> url

\* C13: an identifier with the 'sc-domain:' prefix normalizes to itself, any
\* other identifier that parses as a URL to 'sc-domain:' and the URL's host
\* name; the retry after a permission error carries that identifier and the
\* rowLimit and startRow of the first request.
C13_FallbackUsesDomainForm ==
    /\ \A s \in Sites : startsWithScDomain(s) => normalizeUrl(s) = s
    /\ (startsWithScDomain(siteUrl) \/ urlParses(siteUrl)) =>
          \A i \in 1 .. Len(fetches) :
              /\ PrimaryDenied(i) => FallbackRequestsOf(i) # {}
              /\ \A j \in FallbackRequestsOf(i) :
                   /\ requests[j].siteUrl = DomainFormOf(siteUrl)
                   /\ \A k \in PrimaryRequestsOf(i) :
                        /\ requests[k].siteUrl = siteUrl
                        /\ requests[j].rowLimit = requests[k].rowLimit
                        /\ requests[j].startRow = requests[k].startRow

\* C13 witness: 'https://example.com/blog/' was denied and the retry went to
\* 'sc-domain:example.com'.
C13_Witness ==
    /\ siteUrl = <<"https://", "example.com", "/blog/">>
    /\ Len(fetches) = 2
    /\ PrimaryDenied(2)
    /\ \E j \in FallbackRequestsOf(2) :
         requests[j].siteUrl = <<"sc-domain:", "example.com">>

(***************************************************************************)
(* Claims about rateLimited, checked under SpecRate.                       *)
(***************************************************************************)
\* the number of events of one kind logged so far
CountEv(ev) == Cardinality({p \in 1 .. Len(rateLog) : rateLog[p].ev = ev})

\* the value operation k resolved with
ResolvedValue(k) ==
    rateLog[CHOOSE p \in 1 .. Len(rateLog) :
                rateLog[p].ev = "end" /\ rateLog[p].fn = k].val

\* C14: the operations run in input order with at most one in flight;
\* operation i+1 starts only after operation i has completed and a wait of
\* delayMs has elapsed after that; when all N operations succeed there are
\* exactly N-1 waits (none for N <= 1) and the returned list holds the result
\* of operation i at index i.
C14_SequentialWithWaitsBetween ==
    /\ CountEv("start") - CountEv("end") - CountEv("fail") \in {0, 1}
    /\ \A p \in 1 .. Len(rateLog) :
         rateLog[p].ev = "start" =>
            LET k == rateLog[p].fn
            IN  /\ k = Cardinality({q \in 1 .. p : rateLog[q].ev = "start"})
                /\ k = 1 => p = 1
                /\ k > 1 =>
                     /\ p >= 3
                     /\ rateLog[p - 1] = [ev |-> "wait", ms |-> delayMs]
                     /\ rateLog[p - 2].ev = "end"
                     /\ rateLog[p - 2].fn = k - 1
    /\ rateResult.kind = "return" =>
         /\ CountEv("end") = Len(fns)
         /\ CountEv("wait") = (IF Len(fns) <= 1 THEN 0 ELSE Len(fns) - 1)
         /\ Len(rateResult.val) = Len(fns)
         /\ \A k \in 1 .. Len(fns) : rateResult.val[k] = ResolvedValue(k)

\* C14 witness: three operations succeeded with two waits of 1000 ms and
\* their results came back in input order.
C14_Witness ==
    /\ Len(fns) = 3
    /\ delayMs = 1000
    /\ rateResult.kind = "return"
    /\ rateResult.val = <<"v1", "v2", "v1">>
    /\ CountEv("wait") = 2

\* C15: when an operation fails, rateLimited throws that failure as it is,
\* starts no later operation and hands out none of the earlier results.
C15_FailureAbortsBatch ==
    \A p \in 1 .. Len(rateLog) :
        rateLog[p].ev = "fail" =>
            /\ p = Len(rateLog)
            /\ ratePc = "done"
            /\ CountEv("start") = rateLog[p].fn
            /\ rateResult.kind = "throw"
            /\ rateResult.err = rateLog[p].err
            /\ rateResult.val = << >>

\* C15 witness: the second of three operations failed with 503 after the
\* first had resolved.
C15_Witness ==
    /\ Len(fns) = 3
    /\ results = <<"v1">>
    /\ rateLog[Len(rateLog)] = [ev |-> "fail", fn |-> 2, err |-> E503]
    /\ rateResult.kind = "throw"

(***************************************************************************)
(* Claims about the composite report, checked under SpecAgg.               *)
(***************************************************************************)
Issued(s) == settled[s].state # "none"

\* C16: all sub-queries are started together, and the report is produced only
\* after every one of them has settled, also when one has already failed.
C16_ReportAfterAllSettled ==
    /\ aggPc # "start" => \A s \in Sections : configured(s, apiKey) => Issued(s)
    /\ aggResult.kind # "none" =>
         /\ \A s \in Sections : settled[s].state # "pending"
         /\ Len(settleOrder) = Cardinality({s \in Sections : Issued(s)})
    /\ (aggPc = "waiting" /\ \E s \in Sections : settled[s].state = "pending") =>
         (aggResult.kind = "none" /\ report = NoReport)

\* C16 witness: the first sub-query to settle failed, the three others
\* settled after it, and then the report was produced.
C16_Witness ==
    /\ aggPc = "done"
    /\ Len(settleOrder) = 4
    /\ settled[settleOrder[1]].state = "rejected"
    /\ \A k \in 2 .. 4 : settled[settleOrder[k]].state = "fulfilled"

C18_NotConfiguredIsDistinct ==
    aggPc = "done" =>
        /\ ~apiKey =>
              (/\ report["vitals"].kind = "notConfigured"
               /\ ~Issued("vitals")
               /\ "vitals" \notin {settleOrder[k] : k \in 1 .. Len(settleOrder)})
        /\ \A s \in Sections :
              /\ report[s].kind = "notConfigured" => (s = "vitals" /\ ~apiKey)
              /\ Issued(s) => report[s].kind \in {"ok", "failed"}

\* C18 witness: without an API key the three other sections settled, one of
\* them with a failure, and the CrUX section was reported as 'not configured'.
C18_Witness ==
    /\ aggPc = "done"
    /\ ~apiKey
    /\ report["vitals"].kind = "notConfigured"
    /\ report["analytics"].kind = "failed"
    /\ report["inspection"].kind = "ok"

(***************************************************************************)
(* Claims about the CallTool request handler, checked under SpecTool.      *)
(***************************************************************************)
\* the failure carries a classification code
Tagged(r) == "code" \in r.keys /\ r.code # ""

\* C19: every result of a tool call is a success payload or a failure that
\* carries a classification tag and a message for the caller, whatever was
\* thrown: a validation error, a GSCError, a plain Error or another value.
C19_EveryFailureTagged ==
    (toolPc = "done" /\ toolResult.isError) =>
        (Tagged(toolResult) /\ toolResult.error # "")

\* the fields of the tool's schema that the arguments get wrong
BadFields(name, fs) ==
    {f \in Fields :
        \E k \in 1 .. Len(schemaOf(name)) :
            /\ schemaOf(name)[k].field = f
            /\ \/ fs[f] = "number"
               \/ fs[f] = "absent" /\ schemaOf(name)[k].required}

\* the number of validation issues of the arguments
IssueCount(name, raw) ==
    IF raw.kind = "object" THEN Cardinality(BadFields(name, raw.fields)) ELSE 1

\* C20: when the arguments of a tool call fail the tool's schema, no service
\* method is invoked and the result is the 'Invalid arguments' failure with
\* one (path, message) detail per validation issue.
C20_InvalidArgumentsNeverReachService ==
    (/\ toolName \in ParsedTools
     /\ toolArgs.kind # "undefined"
     /\ IssueCount(toolName, toolArgs) > 0) =>
        /\ serviceCalls = << >>
        /\ toolPc \in {"start", "done"}
        /\ toolPc = "done" =>
             /\ toolResult.isError
             /\ toolResult.error = "Invalid arguments"
             /\ toolResult.keys = {"error", "details"}
             /\ Len(toolResult.details) = IssueCount(toolName, toolArgs)
             /\ toolArgs.kind = "object" =>
                  \A f \in BadFields(toolName, toolArgs.fields) :
                      \E k \in 1 .. Len(toolResult.details) :
                          /\ toolResult.details[k].path = f
                          /\ toolResult.details[k].message =
                                (IF toolArgs.fields[f] = "number"
                                 THEN "Expected string, received number"
                                 ELSE "Required")
             /\ toolArgs.kind # "object" =>
                  toolResult.details[1].path = ""

\* C20 witness: submit_sitemap was called with a number for siteUrl and no
\* feedpath; the result lists both issues and no service method ran.
C20_Witness ==
    /\ toolName = "submit_sitemap"
    /\ toolArgs.kind = "object"
    /\ toolArgs.fields["siteUrl"] = "number"
    /\ toolArgs.fields["feedpath"] = "absent"
    /\ toolPc = "done"
    /\ toolResult.details =
          <<[path |-> "siteUrl", message |-> "Expected string, received number"],
            [path |-> "feedpath", message |-> "Required"]>>
    /\ serviceCalls = << >>

(***************************************************************************)
(* Further claims about withRetry, checked under SpecRetry.                *)
(***************************************************************************)
\* C28: the final throw of withRetry is never reached: whatever the options,
\* a finished call has invoked the operation at least once and has either
\* returned the operation's value or rethrown the operation's error.
C28_RetryExhaustedUnreachable ==
    rpc = "done" =>
        /\ Len(calls) >= 1
        /\ result.kind \in {"return", "throw"}
        /\ result.kind = "return" =>
              (calls[Len(calls)].kind = "ok" /\ calls[Len(calls)].val = result.val)
        /\ result.kind = "throw" =>
              (/\ result.err # RetryExhaustedError
               /\ calls[Len(calls)].kind = "err"
               /\ calls[Len(calls)].err = result.err)

(***************************************************************************)
(* Further claims about the permission fallback, checked under SpecPage.   *)
(***************************************************************************)
\* C30: the fallback works in both directions: after a permission error on a
\* URL-prefix identifier the retry goes to the domain-level form, and after a
\* permission error on a domain-level identifier the retry goes to another
\* identifier form than the one that failed.
C30_FallbackInBothDirections ==
    \A i \in 1 .. Len(fetches) :
        \A j \in FallbackRequestsOf(i) :
            /\ urlParses(siteUrl) => requests[j].siteUrl = DomainFormOf(siteUrl)
            /\ startsWithScDomain(siteUrl) => requests[j].siteUrl # siteUrl

(***************************************************************************)
(* Claims about the service methods, checked under SpecSvc.                *)
(***************************************************************************)
\* C29: every service method that calls the remote API is wrapped in
\* withRetry and withPermissionFallback: a first failure with 429 or a
\* status >= 500 is followed by another request instead of being thrown at
\* once, and a first failure with a permission error is followed by the
\* fallback request.
C29_EveryMethodRetriesAndFallsBack ==
    (svcPc = "done" /\ svcErrors # << >>) =>
        /\ (StatusIs429Or5xx(svcErrors[1]) => Len(svcRequests) >= 2)
        /\ (svcErrors[1].isError /\ MessageHasPermission(svcErrors[1])) =>
              (/\ Len(svcRequests) = 2
               /\ svcRequests[2].via = "fallback")

(***************************************************************************)
(* Claims about loadCredentials, checked under SpecCred.                   *)
(***************************************************************************)
\* the source is set and holds JSON that can be read
LoadsSuccessfully(k) == credEnv[k] \in {"ok", "okNoEmail"}

\* C22: loadCredentials returns the credentials of the first of
\* GOOGLE_CREDENTIALS, GOOGLE_CREDENTIALS_PATH, GOOGLE_APPLICATION_CREDENTIALS
\* that loads; a later source is used only when every earlier one is unset or
\* failed to load; it throws exactly when none loads.
C22_HighestPrioritySourceWins ==
    credPc = "done" =>
        /\ credResult.kind = "throw" <=> (\A k \in 1 .. 3 : ~LoadsSuccessfully(k))
        /\ credResult.kind = "return" =>
              /\ LoadsSuccessfully(credResult.source)
              /\ \A j \in 1 .. credResult.source - 1 : ~LoadsSuccessfully(j)
              /\ credResult.path = pathOf(credResult.source)
        /\ credResult.kind \in {"return", "throw"}

\* C22 witness: GOOGLE_CREDENTIALS is no JSON, the file of
\* GOOGLE_CREDENTIALS_PATH is missing, and the credentials of
\* GOOGLE_APPLICATION_CREDENTIALS were returned.
C22_Witness ==
    /\ credEnv = <<"unparseable", "missing", "ok">>
    /\ credPc = "done"
    /\ credResult.kind = "return"
    /\ credResult.source = 3
    /\ credResult.path = "GOOGLE_APPLICATION_CREDENTIALS"

(***************************************************************************)
(* Claims about the token refresh, checked under SpecTok.                  *)
(***************************************************************************)
\* the in-memory tokens after refresh event k
TokensAfter(k) == IF k = Len(tokLog) THEN tokens ELSE tokLog[k + 1].before

\* the keys of new overwrite those of old, every other key of old is kept
MergedInto(old, new, merged) ==
    /\ merged.access_token =
          (IF new.access_token = "absent" THEN old.access_token ELSE new.access_token)
    /\ merged.refresh_token =
          (IF new.refresh_token = "absent" THEN old.refresh_token ELSE new.refresh_token)
    /\ new.expiry_date # 0 => merged.expiry_date = new.expiry_date

\* C23: every refresh event merges the new tokens into the in-memory token
\* set; the merged tokens are written to the token file exactly when the
\* tokens were loaded from a file; tokens loaded from GOOGLE_OAUTH2_TOKENS are
\* updated in memory only; a failed write neither undoes the in-memory update
\* nor raises.
C23_RefreshMergesAndSavesOnlyToFile ==
    /\ \A k \in 1 .. Len(tokLog) :
         /\ MergedInto(tokLog[k].before, tokLog[k].newTokens, TokensAfter(k))
         /\ ~tokLog[k].raised
         /\ tokLog[k].write \in {"saved", "failed"} <=> tokensPath # 0
    /\ tokPc = "ready" => (tokensPath = 0 <=> tokEnv = "ok")
    /\ (tokPc = "ready" /\ tokensPath = 0) =>
          \A f \in 1 .. Len(tokFiles) :
              tokFiles[f].content = Tokens(IF f = 1 THEN "file1-access" ELSE "file2-access",
                                           "file-refresh", 100)
    /\ (tokLog # << >> /\ tokLog[Len(tokLog)].write = "saved") =>
          (/\ tokFiles[tokensPath].state = "ok"
           /\ tokFiles[tokensPath].content = tokens)

\* C23 witness: tokens loaded from the second candidate file were refreshed
\* twice; the first write failed, the second saved the merged tokens, which
\* keep the refresh token of the file.
C23_Witness ==
    /\ tokensPath = 2
    /\ Len(tokLog) = 2
    /\ tokLog[1].write = "failed"
    /\ tokLog[2].write = "saved"
    /\ tokens = Tokens("access-2", "file-refresh", 9000)
    /\ tokFiles[2].content = tokens

(***************************************************************************)
(* Claims about the computed analytics, checked under SpecCalc.            *)
(***************************************************************************)
\* C24: the period comparison has one entry for every key of either period;
\* a key of only one period is paired with zero; delta is later minus
\* earlier and percent change is delta over earlier (10 then 5: -5, -50%);
\* with an earlier value of zero the percent change is the sentinel.
C24_ComparisonCoversBothPeriods ==
    calcOp = "compare" =>
        /\ DOMAIN comparison = DOMAIN earlier \cup DOMAIN later
        /\ \A k \in DOMAIN comparison :
             LET c == comparison[k]
             IN  /\ k \in DOMAIN earlier => c.earlier = earlier[k]
                 /\ k \notin DOMAIN earlier => c.earlier = 0
                 /\ k \in DOMAIN later => c.later = later[k]
                 /\ k \notin DOMAIN later => c.later = 0
                 /\ c.delta = c.later - c.earlier
                 /\ c.earlier = 0 <=> ~c.percent.defined
                 /\ c.earlier # 0 => c.percent.tenths * c.earlier = c.delta * 1000
                 /\ (c.earlier = 10 /\ c.later = 5) =>
                       (c.delta = -5 /\ c.percent.tenths = -500)

\* C24 witness: key a went from 10 to 5 clicks and key b exists only in the
\* later period.
C24_Witness ==
    /\ calcOp = "compare"
    /\ DOMAIN earlier = {"a"}
    /\ DOMAIN comparison = {"a", "b"}
    /\ comparison["a"] = [earlier |-> 10, later |-> 5, delta |-> -5,
                          percent |-> [defined |-> TRUE, tenths |-> -500]]
    /\ comparison["b"].earlier = 0
    /\ ~comparison["b"].percent.defined
    /\ comparison["b"].later = 40

\* C25: decay detection lists a page exactly when its clicks did not
\* increase from the earlier to the recent period (100 to 40: loss 60, 60%;
\* 40 to 100: not listed), sorted by loss, largest first.
C25_DecayListsNonGains ==
    calcOp = "decay" =>
        /\ \A k \in DOMAIN earlier \cup DOMAIN later :
             (\E i \in 1 .. Len(decay) : decay[i].page = k)
                <=> clicksIn(later, k) <= clicksIn(earlier, k)
        /\ \A i \in 1 .. Len(decay) :
             /\ decay[i].loss = decay[i].earlier - decay[i].recent
             /\ decay[i].loss >= 0
             /\ (decay[i].earlier = 100 /\ decay[i].recent = 40) =>
                   (decay[i].loss = 60 /\ decay[i].percent.tenths = 600)
             /\ \A j \in 1 .. Len(decay) :
                   /\ i < j => decay[i].loss >= decay[j].loss
                   /\ i # j => decay[i].page # decay[j].page

\* C25 witness: page a went from 100 to 40 and page b from 10 to 5; both are
\* listed, a first.
C25_Witness ==
    /\ calcOp = "decay"
    /\ Len(decay) = 2
    /\ decay[1] = [page |-> "a", earlier |-> 100, recent |-> 40, loss |-> 60,
                   percent |-> [defined |-> TRUE, tenths |-> 600]]
    /\ decay[2].page = "b"
    /\ decay[2].loss = 5

\* C27: 'new' is the set of queries of the later period only, 'lost' the set
\* of queries of the earlier period only; they are disjoint and a query of
\* both periods is in neither.
C27_KeywordDiffPartitions ==
    calcOp = "diff" =>
        /\ \A k \in Keys :
             /\ k \in keywordDiff.new <=> (k \in DOMAIN later /\ k \notin DOMAIN earlier)
             /\ k \in keywordDiff.lost <=> (k \in DOMAIN earlier /\ k \notin DOMAIN later)
             /\ (k \in DOMAIN earlier /\ k \in DOMAIN later) =>
                   (k \notin keywordDiff.new /\ k \notin keywordDiff.lost)
        /\ keywordDiff.new \cap keywordDiff.lost = {}

\* C27 witness: query a is lost and query b is new.
C27_Witness ==
    /\ calcOp = "diff"
    /\ DOMAIN earlier = {"a"}
    /\ DOMAIN later = {"b"}
    /\ keywordDiff = [new |-> {"b"}, lost |-> {"a"}]

(***************************************************************************)
(* Claims about the cannibalization detection, checked under SpecCann.     *)
(***************************************************************************)
\* the pages with at least one row for the query
PagesWithRows(q) == {p \in Pages : Len(cannRows[q][p]) > 0}

\* the average position of the page's rows is avg
HasAverage(q, p, avg) ==
    /\ Len(cannRows[q][p]) > 0
    /\ sumOf(cannRows[q][p]) = avg * Len(cannRows[q][p])

\* C26: a query is put out exactly when at least 2 distinct pages
\* contributed rows for it; a query with one contributing page is never put
\* out, and a query with two pages of average positions 3.0 and 9.0 is put
\* out with a nonzero position variance.
C26_CannibalizationNeedsTwoPages ==
    cannPc = "done" =>
        \A q \in Queries :
            /\ q \in DOMAIN cannGroups <=> Cardinality(PagesWithRows(q)) >= 2
            /\ Cardinality(PagesWithRows(q)) = 1 => q \notin DOMAIN cannGroups
            /\ (HasAverage(q, "p1", 3) /\ HasAverage(q, "p2", 9)) =>
                  (q \in DOMAIN cannGroups /\ cannGroups[q].variance # 0)
            /\ q \in DOMAIN cannGroups =>
                  (/\ cannGroups[q].pages = PagesWithRows(q)
                   /\ cannGroups[q].variance >= 0)

\* C26 witness: query q1 has pages at positions 3 and 9 and is put out with
\* variance 9 (144 in the scaled unit); query q2 has one page and is not.
C26_Witness ==
    /\ cannPc = "done"
    /\ cannRows["q1"] = [p \in Pages |-> IF p = "p1" THEN <<3>> ELSE <<9>>]
    /\ cannRows["q2"] = [p \in Pages |-> IF p = "p1" THEN <<3, 9>> ELSE << >>]
    /\ DOMAIN cannGroups = {"q1"}
    /\ cannGroups["q1"].variance = 144

(***************************************************************************)
(* Claims about the batch inspection, checked under SpecBatch.             *)
(***************************************************************************)
\* C21: a batch of more than 100 URLs is rejected as a whole: no inspection
\* call is issued for any of its URLs, and it is never cut down to its first
\* 100 URLs.
C21_OversizedBatchRejected ==
    /\ batchSize > 100 =>
          /\ inspected = 0
          /\ batchResult # "outcomes"
          /\ batchPc = "done" => batchResult = "rejected"
    /\ batchResult = "outcomes" => (inspected = batchSize /\ batchSize <= 100)

\* C21 witness: a batch of 101 URLs was rejected without any inspection.
C21_Witness ==
    /\ batchSize = 101
    /\ batchPc = "done"
    /\ batchResult = "rejected"
    /\ inspected = 0

(***************************************************************************)
(* Claims about failures during pagination, checked under SpecPage.        *)
(***************************************************************************)
\* the error service.searchAnalytics rejected with for fetch i
FetchErrorOf(i) == fetches[i].errors[Len(fetches[i].errors)]

\* C31: when a page fetch fails, paginateSearchAnalytics fails with that same
\* error: the failed fetch is the last one, and the rows accumulated from the
\* earlier pages are not returned as a partial result.
C31_FailedFetchFailsPagination ==
    /\ \A i \in 1 .. Len(fetches) :
          fetches[i].state = "err" =>
             /\ i = Len(fetches)
             /\ ppc = "done"
             /\ pageResult.kind = "throw"
             /\ pageResult.err = FetchErrorOf(i)
             /\ pageResult.rows = << >>
    /\ pageResult.kind = "throw" =>
          /\ fetches # << >>
          /\ fetches[Len(fetches)].state = "err"

\* C31 witness: a later page fetch failed after rows had been accumulated.
C31_Witness ==
    /\ Len(fetches) >= 2
    /\ fetches[Len(fetches)].state = "err"
    /\ TotalRows(allRows) > 0
    /\ pageResult.kind = "throw"

\* C33: at every upstream request the requested startRow is the number of rows
\* accumulated from all earlier pages, and startRow + rowLimit <= maxRows.
C33_StartRowIsRowsSoFar ==
    /\ \A i \in 1 .. Len(fetches) :
          /\ fetches[i].startRow = TotalRows(fetches[i].accumulated)
          /\ fetches[i].startRow + fetches[i].limit <= maxRows
    /\ \A j \in 1 .. Len(requests) :
          /\ requests[j].fetch \in 1 .. Len(fetches)
          /\ requests[j].startRow = Num(fetches[requests[j].fetch].startRow)
          /\ requests[j].rowLimit = Num(fetches[requests[j].fetch].limit)

\* C33 witness: a second page was requested after rows had been accumulated.
C33_Witness ==
    /\ Len(fetches) >= 2
    /\ fetches[2].startRow > 0
    /\ fetches[2].startRow = TotalRows(fetches[2].accumulated)
    /\ \E j \in 1 .. Len(requests) :
          requests[j].fetch = 2 /\ requests[j].startRow = Num(fetches[2].startRow)

(***************************************************************************)
(* Claims about formatAuthError, checked under SpecFmt.                    *)
(***************************************************************************)
\* the message formatAuthError gives for fmtError in the given auth mode
InMode(mode) == formatAuthError(fmtError, [fmtAuth EXCEPT !.mode = mode], fmtSite)

\* C32: formatAuthError classifies in the order permission, authentication,
\* quota, generic and always returns a structured message: the permission and
\* authentication steps depend on the auth mode and the service-account
\* permission message names the account identity; the quota message recommends
\* waiting and is the same in both modes; any other error gives a generic
\* message with its name, message, code and status.
C32_FormatAuthErrorClassifies ==
    fmtPc = "done" =>
       /\ fmtResult.keys # {}
       /\ isInstance(fmtError, "GSCPermissionError") =>
             /\ fmtResult.error = "Permission denied for this Search Console property"
             /\ fmtResult.authMode = fmtAuth.mode
             /\ fmtResult.originalError = fmtError.message
             /\ InMode("oauth2").steps # InMode("service_account").steps
             /\ InMode("oauth2").solution # InMode("service_account").solution
             /\ fmtAuth.mode = "service_account" =>
                   /\ fmtResult.solution
                         = "Please add the service account as a user in Search Console: "
                              \o fmtAuth.identity
                   /\ fmtResult.steps[4]
                         = "4. Add " \o fmtAuth.identity \o " with Owner or Full access"
       /\ (~isInstance(fmtError, "GSCPermissionError")
             /\ isInstance(fmtError, "GSCAuthError")) =>
             /\ fmtResult.error = (IF fmtAuth.mode = "oauth2"
                                     THEN "OAuth2 authentication failed"
                                     ELSE "Service Account authentication failed")
             /\ fmtResult.authMode = fmtAuth.mode
             /\ fmtResult.originalError = fmtError.message
             /\ InMode("oauth2").steps # InMode("service_account").steps
       /\ (fmtError.classes = {"GSCQuotaError"}) =>
             /\ fmtResult.error = "API quota exceeded"
             /\ fmtResult.solution = "Wait a moment and retry, or reduce request frequency"
             /\ fmtResult.steps[1] = "1. Wait 60 seconds before retrying"
             /\ "authMode" \notin fmtResult.keys
             /\ InMode("oauth2") = InMode("service_account")
       /\ (fmtError.classes = {}) =>
             /\ {"error", "message"} \subseteq fmtResult.keys
             /\ fmtResult.error = (IF fmtError.name = "" THEN "GSCError" ELSE fmtError.name)
             /\ fmtResult.message = fmtError.message
             /\ fmtResult.code = fmtError.code
             /\ fmtResult.statusCode = fmtError.statusCode
             /\ "code" \in fmtResult.keys <=> fmtError.code # Undef
             /\ "statusCode" \in fmtResult.keys <=> fmtError.statusCode # Undef
             /\ fmtResult.steps = << >>

\* C32 witness: an error that is a permission, an authentication and a quota
\* error at once was formatted as a permission error for a service account.
C32_Witness ==
    /\ fmtPc = "done"
    /\ fmtError.classes = ErrorClasses
    /\ fmtAuth.mode = "service_account"
    /\ fmtResult.error = "Permission denied for this Search Console property"
    /\ fmtResult.steps[4] = "4. Add " \o fmtAuth.identity \o " with Owner or Full access"

(***************************************************************************)
(* Claims about the CallTool handler's dispatch, checked under SpecTool.   *)
(***************************************************************************)
\* C34: the tool-call handler never rejects: whatever the tool name, the
\* arguments and the value a tool handler throws, the handler settles only by
\* resolving with a result, and every failure is surfaced as an error result
\* that carries the failure's message.
C34_HandlerNeverRejects ==
    /\ toolPc \in {"start", "remote", "done"}
    /\ toolPc = "done" <=> toolResult # NoToolResult
    /\ Len(thrown) <= 1
    /\ thrown # << >> =>
          /\ toolPc = "done"
          /\ toolResult.isError
          /\ "error" \in toolResult.keys
          /\ toolResult.error # ""
          /\ \/ toolResult.error = thrown[1].message
             \/ toolResult.text = thrown[1].message
             \/ toolResult.details # << >>

\* C34 witness: a handler threw a value that is no Error and the request was
\* answered with the 'Unknown error' result.
C34_Witness ==
    /\ toolPc = "done"
    /\ thrown = <<ThrownText>>
    /\ toolResult.isError
    /\ toolResult.error = "Unknown error"
    /\ toolResult.text = ThrownText.message

\* C35: a call without arguments, for any name other than list_sites, is
\* answered 'Arguments are required' without any handler or remote call, also
\* when the name is unknown; only an unknown name called with arguments is
\* answered 'Unknown tool: <name>'.
C35_ArgumentsRequiredBeforeDispatch ==
    toolPc = "done" =>
       /\ (toolArgs.kind = "undefined" /\ toolName # "list_sites") =>
             /\ toolResult = argumentsRequired
             /\ serviceCalls = << >>
             /\ thrown = << >>
       /\ toolResult.error = "Unknown tool: " \o toolName <=>
             (toolName \notin DispatchedTools /\ toolArgs.kind # "undefined")

\* C35 witness: an unknown tool called without arguments was answered
\* 'Arguments are required'.
C35_Witness ==
    /\ toolPc = "done"
    /\ toolName \in UnknownTools
    /\ toolArgs.kind = "undefined"
    /\ toolResult.error = "Arguments are required"
    /\ thrown = << >>

\* C36: the advertised tool names are exactly the names the dispatcher routes
\* to a handler: no advertised tool is answered 'Unknown tool', and every name
\* that reaches a handler is advertised.
C36_AdvertisedAreDispatched ==
    /\ (toolName \in AdvertisedTools /\ toolPc = "done") =>
          /\ UnknownToolError(toolName) \notin {thrown[i] : i \in 1 .. Len(thrown)}
          /\ toolResult.error # "Unknown tool: " \o toolName
    /\ (toolName \notin AdvertisedTools /\ toolPc = "done"
           /\ toolArgs.kind # "undefined") =>
          /\ thrown = <<UnknownToolError(toolName)>>
          /\ serviceCalls = << >>
    /\ \A i, j \in 1 .. Len(TOOLS) : TOOLS[i] = TOOLS[j] => i = j

\* C36 witness: the last advertised tool was called with arguments and its
\* handler answered.
C36_Witness ==
    /\ toolName = TOOLS[Len(TOOLS)]
    /\ toolArgs.kind = "object"
    /\ toolPc = "done"
    /\ thrown = << >>
    /\ ~toolResult.isError

\* C37: after any sequence of refresh events the stored token set still holds
\* a refresh token: an event that delivers no refresh_token leaves the stored
\* one unchanged, as it does every other field it does not deliver, and the
\* stored expiry_date is set after each refresh: the delivered value, or one
\* hour after the refresh when none is delivered.
C37_RefreshTokenSurvives ==
    /\ tokPc = "ready" => tokens.refresh_token # "absent"
    /\ \A k \in 1 .. Len(tokLog) :
          LET old == tokLog[k].before
              new == tokLog[k].newTokens
              now == TokensAfter(k)
          IN  /\ now.refresh_token # "absent"
              /\ new.refresh_token = "absent" => now.refresh_token = old.refresh_token
              /\ new.refresh_token # "absent" => now.refresh_token = new.refresh_token
              /\ new.access_token = "absent" => now.access_token = old.access_token
              /\ now.expiry_date # 0
              /\ now.expiry_date = (IF new.expiry_date # 0 THEN new.expiry_date
                                    ELSE tokLog[k].now + 3600 * 1000)
    /\ \A f \in 1 .. Len(tokFiles) :
          tokFiles[f].state = "ok" => tokFiles[f].content.refresh_token # "absent"

\* C37 witness: two refreshes delivered an access token but neither a refresh
\* token nor an expiry date; the refresh token loaded from the environment is
\* still stored and the expiry is one hour after the refresh.
C37_Witness ==
    /\ tokEnv = "ok"
    /\ Len(tokLog) = 2
    /\ \A k \in 1 .. 2 :
          /\ tokLog[k].newTokens.refresh_token = "absent"
          /\ tokLog[k].newTokens.expiry_date = 0
    /\ tokens.refresh_token = "env-refresh"
    /\ tokens.expiry_date = 1000 + 3600 * 1000

(***************************************************************************)
(* Claims about normalizeUrl on its own result, checked under SpecNorm.    *)
(***************************************************************************)
\* C38: normalization is idempotent: for a domain-level identifier, a URL
\* that parses and a string that does not, normalizing the normalized
\* identifier gives the normalized identifier again.
C38_NormalizeUrlIdempotent ==
    /\ normPc = 2 => normTwice = normOnce
    /\ normPc >= 1 =>
          /\ normInput[1] = "sc-domain:" => normOnce = normInput
          /\ normInput[1] \in {"https://", "http://"} =>
                (Len(normOnce) = 2 /\ normOnce[1] = "sc-domain:")
          /\ normInput[1] \in Hosts => normOnce = normInput

\* C38 witness: a URL with a mixed-case host, a port and a path was
\* normalized twice.
C38_Witness ==
    /\ normPc = 2
    /\ normInput = <<"https://", "Example.COM", ":8443", "/blog/">>
    /\ normOnce = <<"sc-domain:", "example.com">>
    /\ normTwice = normOnce

(***************************************************************************)
(* Claims about the status probing of withRetry, checked under SpecRetry.  *)
(***************************************************************************)
\* the fields of an error in the order code, status, response.status
StatusFields(e) == <<e.code, e.status, e.respStatus>>

\* the error is an object and its first numeric field is 429 or at least 500
FirstNumericRetryable(e) ==
    /\ e.obj
    /\ \E k \in 1 .. 3 :
          /\ StatusFields(e)[k].t = "number"
          /\ \A j \in 1 .. k - 1 : StatusFields(e)[j].t # "number"
          /\ (StatusFields(e)[k].n = 429 \/ StatusFields(e)[k].n >= 500)

\* a backoff wait was started after invocation i
RetriedAfter(i) == \E d \in 1 .. Len(delays) : delays[d].afterCalls = i

\* C39: the retry decision uses the first numeric value among the error's
\* code, status and response.status and ignores non-numeric values: numeric
\* code 404 with response.status 503 is not retried, a string code with
\* response.status 503 is retried, and an error that is no object or has no
\* numeric field is never retried.
C39_FirstNumericStatusDecides ==
    \A i \in 1 .. Len(calls) :
        calls[i].kind = "err" =>
           /\ RetriedAfter(i) => FirstNumericRetryable(calls[i].err)
           /\ (FirstNumericRetryable(calls[i].err) /\ calls[i].attempt < maxRetries)
                 => RetriedAfter(i)
           /\ calls[i].err \in {ECode404Resp503, EStatus404Resp503, EPlain, EThrownString}
                 => (~RetriedAfter(i) /\ i = Len(calls) /\ result.err = calls[i].err)
           /\ (calls[i].err = EStrCodeResp503 /\ calls[i].attempt < maxRetries)
                 => RetriedAfter(i)

\* C39 witness: a failure with a string code and response.status 503 was
\* retried, and the next failure, with numeric code 404 and response.status
\* 503, was thrown at once.
C39_Witness ==
    /\ Len(calls) = 2
    /\ calls[1].err = EStrCodeResp503
    /\ calls[2].kind = "err" /\ calls[2].err = ECode404Resp503
    /\ Len(delays) = 1
    /\ rpc = "done"
    /\ result.kind = "throw" /\ result.err = ECode404Resp503

====
